---- MODULE Spec2Model ----
(***************************************************************************)
(* Lucenta: the research workflow (Boss.plan_task / validate_plan /        *)
(* execute_plan / synthesize), its two entry points                        *)
(* (Orchestrator.process_message and deep_research_workflow), the          *)
(* background parsing tasks of execute_plan and the trust list.            *)
(*                                                                         *)
(* Text is modelled as tuples of one-character strings, so that Python's   *)
(* substring test (x in s), str.endswith and urlparse(...).netloc are      *)
(* computed as the code computes them.                                     *)
(***************************************************************************)
EXTENDS Integers, Sequences, FiniteSets, TLC

\* ------------------------------------------------------------------ bounds
\* Longest plan the planner returns in the model.
MaxPlanLen == 2

\* ------------------------------------------------------------------- text
Range(s) == {s[i] : i \in 1..Len(s)}

NoDuplicates(s) == \A i, j \in 1..Len(s) : i # j => s[i] # s[j]

\* Python: sub in s (str.__contains__); the empty text is in every text.
Contains(s, sub) ==
    \E i \in 1..(Len(s) - Len(sub) + 1) : SubSeq(s, i, i + Len(sub) - 1) = sub

\* Python: s.endswith(suf)
EndsWith(s, suf) ==
    /\ Len(suf) <= Len(s)
    /\ SubSeq(s, Len(s) - Len(suf) + 1, Len(s)) = suf

\* Index of the first element of s that is in set cs, Len(s) + 1 when none.
FirstOf(s, cs) ==
    IF \E i \in 1..Len(s) : s[i] \in cs
    THEN CHOOSE i \in 1..Len(s) : s[i] \in cs /\ \A j \in 1..(i - 1) : s[j] \notin cs
    ELSE Len(s) + 1

\* urllib.parse.urlparse(link).netloc: an optional scheme up to the first
\* ":", then, only if "//" follows, the text up to the next "/", "?" or "#".
Netloc(link) ==
    LET colon  == FirstOf(link, {":"})
        scheme == colon > 1 /\ colon <= Len(link)
                  /\ \A j \in 1..(colon - 1) : link[j] \notin {"/", "?", "#"}
        rest   == IF scheme THEN SubSeq(link, colon + 1, Len(link)) ELSE link
    IN  IF Len(rest) >= 2 /\ rest[1] = "/" /\ rest[2] = "/"
        THEN LET host == SubSeq(rest, 3, Len(rest))
             IN  SubSeq(host, 1, FirstOf(host, {"/", "?", "#"}) - 1)
        ELSE << >>

\* ------------------------------------------------------------- the texts
Http      == <<"h", "t", "t", "p", ":", "/", "/">>
ArxivOrg  == <<"a", "r", "x", "i", "v", ".", "o", "r", "g">>
CnnCom    == <<"c", "n", "n", ".", "c", "o", "m">>
NewsNet   == <<"n", "e", "w", "s", ".", "n", "e", "t">>
EvilCom   == <<"e", "v", "i", "l", ".", "c", "o", "m">>
DotPdf    == <<".", "p", "d", "f">>
ArxivPdfPath == ArxivOrg \o <<"/", "p", "d", "f">>

\* The links that search results, tool results and plan steps carry.
Links == {"arxiv_abs", "news_a", "news_pdf", "evil_pdf", "evil_trick", "notarxiv"}

Url(l) ==
    CASE l = "arxiv_abs"  -> Http \o ArxivOrg \o <<"/", "a", "b", "s", "/", "1">>
      [] l = "news_a"     -> Http \o NewsNet \o <<"/", "a">>
      [] l = "news_b"     -> Http \o NewsNet \o <<"/", "b">>
      [] l = "news_pdf"   -> Http \o NewsNet \o <<"/", "c">> \o DotPdf
      [] l = "evil_pdf"   -> Http \o EvilCom \o <<"/", "x">> \o DotPdf
      \* a trusted domain's text in the path of another host
      [] l = "evil_trick" -> Http \o EvilCom \o <<"/">> \o ArxivPdfPath \o <<"/", "1">>
      \* a trusted domain's text as the tail of a longer host name
      \* a link without a scheme: its netloc is empty
      [] l = "bare"       -> NewsNet \o <<"/", "a">>
      [] l = "notarxiv"   -> Http \o <<"n", "o", "t">> \o ArxivOrg \o <<"/", "a">>

NcbiGov   == <<"n", "c", "b", "i", ".", "n", "l", "m", ".", "n", "i", "h", ".", "g", "o", "v">>
PubmedGov == <<"p", "u", "b", "m", "e", "d", ".">> \o NcbiGov
WikipediaOrg == <<"w", "i", "k", "i", "p", "e", "d", "i", "a", ".", "o", "r", "g">>

LowerCase == <<"a", "b", "c", "d", "e", "f", "g", "h", "i", "j", "k", "l", "m",
               "n", "o", "p", "q", "r", "s", "t", "u", "v", "w", "x", "y", "z">>
UpperCase == <<"A", "B", "C", "D", "E", "F", "G", "H", "I", "J", "K", "L", "M",
               "N", "O", "P", "Q", "R", "S", "T", "U", "V", "W", "X", "Y", "Z">>

\* Python: s.upper()
Upper(s) ==
    [i \in 1..Len(s) |->
        IF \E k \in 1..26 : LowerCase[k] = s[i]
        THEN UpperCase[CHOOSE k \in 1..26 : LowerCase[k] = s[i]]
        ELSE s[i]]

\* ------------------------------------------------------------ plan steps
\* The names of the MCP tools a plan step may call.
ActionText(a) ==
    CASE a = "search_arxiv" -> <<"s", "e", "a", "r", "c", "h", "_", "a", "r", "x", "i", "v">>
      [] a = "list_feeds"   -> <<"l", "i", "s", "t", "_", "f", "e", "e", "d", "s">>

SearchText      == <<"s", "e", "a", "r", "c", "h">>
GetText         == <<"g", "e", "t">>
SearchArxivText == SearchText \o <<"_", "a", "r", "x", "i", "v">>
SearchPubmedText == SearchText \o <<"_", "p", "u", "b", "m", "e", "d">>

\* An entry of the plan as json.loads yields it. type is "dict" for a
\* mapping; args_type is the type of its "args"; key and arg are the one
\* key of mapping args and its value, arg is the first element of list
\* args ("" when there is none).
Entry(type, worker, action, args_type, key, arg) ==
    [type |-> type, worker |-> worker, action |-> action, args_type |-> args_type,
     key |-> key, arg |-> arg]

\* A well-formed step: a mapping with mapping args.
Step(worker, action, key, arg) == Entry("dict", worker, action, "dict", key, arg)

StepKinds ==
    { Step("ddg",     "search",       "query", "qa"),
      Step("ddg",     "search",       "query", "qb"),
      Step("ddg",     "search",       "none",  ""),
      Step("mcp",     "search_arxiv", "none",  ""),
      Step("mcp",     "list_feeds",   "none",  ""),
      Step("docling", "parse_url",    "url",   "news_a") }

\* The entries a planner may also emit: entries that are no mapping, steps
\* of an unknown worker or action, steps whose args are a list or a string,
\* steps without the argument their worker reads.
LooseStepKinds ==
    { Entry("str",  "none",    "none",       "none", "none",      ""),
      Step("browser", "open",       "url",       "news_a"),
      Step("ddg",     "search",     "none",      ""),
      Step("ddg",     "search",     "url",       "news_a"),
      Entry("dict", "ddg",     "search",     "str",  "none",      "qa"),
      Entry("dict", "ddg",     "news",       "list", "none",      "qa"),
      Step("docling", "parse_url",  "none",      ""),
      Step("docling", "convert",    "url",       "news_a"),
      Step("docling", "parse_file", "none",      ""),
      Step("docling", "parse_file", "file_path", "paper_file"),
      Step("docling", "parse_url",  "url",       "news_a"),
      Entry("dict", "docling", "parse_url",  "list", "none",      "news_a") }

\* if not isinstance(args, dict): the args are repaired. The string given
\* as args is dropped whatever the action.
RepairArgsKeepsString(step) ==
    IF step.args_type = "dict" THEN [key |-> step.key, value |-> step.arg]
    ELSE [key |-> IF step.action = "search" THEN "query" ELSE "url", value |-> step.arg]

RepairArgs(step) ==
    IF step.args_type = "dict" THEN [key |-> step.key, value |-> step.arg]
    ELSE IF step.args_type = "list" /\ step.arg # ""
         THEN IF step.action \in {"parse_url", "search"}
              THEN [key |-> IF step.action = "search" THEN "query" ELSE "url",
                    value |-> step.arg]
              ELSE [key |-> "data", value |-> step.arg]
         ELSE [key |-> "none", value |-> ""]

\* args.get(key): "" stands for None and for every falsy value.
ArgsGet(step, key) ==
    LET args == RepairArgs(step) IN IF args.key = key THEN args.value ELSE ""

\* All plans of at most n steps.
PlansUpTo(n) == UNION {[1..k -> StepKinds] : k \in 0..n}

\* All plans of one to n entries of the given kinds.
PlansOf(kinds, n) == UNION {[1..k -> kinds] : k \in 1..n}

\* What DuckDuckGoWorker.search returns for a query: a list of links.
SearchResults(query) ==
    CASE query = "qa" -> <<"news_a", "notarxiv">>
      [] query = "qb" -> <<"arxiv_abs">>
      [] query = "qc" -> <<"news_a", "news_b", "notarxiv">>
      [] OTHER        -> << >>

\* The links that re.findall finds in the text an MCP tool returned.
ToolLinks(action) ==
    CASE action = "search_arxiv" -> <<"arxiv_abs", "evil_trick", "evil_pdf", "news_pdf">>
      [] OTHER                   -> << >>

\* What the plan validator (the model) may answer.
ValidatorReplies ==
    { <<"V", "A", "L", "I", "D">>,
      <<"v", "a", "l", "i", "d">>,
      <<"g", "a", "p", "s">> }

\* ------------------------------------------------------------ trust list
\* Boss._load_trusted_domains: the built-in defaults.
DefaultTrusted == <<ArxivOrg, NcbiGov, PubmedGov, WikipediaOrg, CnnCom>>

\* The persisted trust-list file: absent, unreadable, or a JSON list.
NoFile       == [exists |-> FALSE, readable |-> FALSE, content |-> << >>]
CorruptFile  == [exists |-> TRUE,  readable |-> FALSE, content |-> << >>]
FileOf(list) == [exists |-> TRUE,  readable |-> TRUE,  content |-> list]

\* Boss._load_trusted_domains
LoadTrustedDomains(file) ==
    IF file.exists /\ file.readable THEN file.content ELSE DefaultTrusted

\* Boss._save_trusted_domains: the file is rewritten with the whole list.
SaveTrustedDomains(list) == FileOf(list)

\* The 'trust' branch of the link prompt: the link's netloc is appended and
\* the list saved, unless the netloc is empty or already in the list.
TrustDomainNoGuard(list, file, domain) ==
    [list |-> Append(list, domain), file |-> SaveTrustedDomains(Append(list, domain))]

TrustDomainNoSave(list, file, domain) ==
    IF domain # << >> /\ domain \notin Range(list)
    THEN [list |-> Append(list, domain), file |-> file]
    ELSE [list |-> list, file |-> file]

TrustDomainFileOnly(list, file, domain) ==
    IF domain # << >> /\ domain \notin Range(list)
    THEN [list |-> list, file |-> SaveTrustedDomains(Append(list, domain))]
    ELSE [list |-> list, file |-> file]

TrustDomain(list, file, domain) ==
    IF domain # << >> /\ domain \notin Range(list)
    THEN [list |-> Append(list, domain), file |-> SaveTrustedDomains(Append(list, domain))]
    ELSE [list |-> list, file |-> file]

\* any(domain in link for domain in self.trusted_domains)
IsTrusted(link, list) == \E i \in 1..Len(list) : Contains(Url(link), list[i])

\* l.endswith('.pdf') or 'arxiv.org/pdf' in l
IsPdfLink(link) == EndsWith(Url(link), DotPdf) \/ Contains(Url(link), ArxivPdfPath)

\* [l for l in s if IsPdfLink(l)]
RECURSIVE FilterPdf(_)
FilterPdf(s) ==
    IF s = << >> THEN << >>
    ELSE (IF IsPdfLink(Head(s)) THEN <<Head(s)>> ELSE << >>) \o FilterPdf(Tail(s))

\* s[:n]
Take(s, n) == SubSeq(s, 1, IF Len(s) < n THEN Len(s) ELSE n)

\* ------------------------------------------------------------------ state
VARIABLES
    entry,            \* "orchestrator" (process_message) or "deep_research"
    mcp_manager,      \* whether the Boss was given an MCP manager
    pc,               \* where the workflow's flow of control is
    plan,             \* the plan plan_task returned
    is_valid,         \* what validate_plan returned
    phases,           \* the phases started so far, in order
    exec_result,      \* what the caller holds as execute_plan's result
    response,         \* what the workflow handed back to its caller, or
                      \* logged for them when it hands back nothing
    cleaned_up,       \* Boss.cleanup has been called
    session_approved, \* Boss.session_approved
    trusted_domains,  \* Boss.trusted_domains
    trusted_file,     \* lucenta-shared/config/trusted_domains.json
    step_idx,         \* index of the plan step being executed
    items,            \* the links being iterated (search_results / pdf_links[:2])
    item_idx,         \* index of the link being processed
    results,          \* execute_plan's results list
    parsing_tasks,    \* execute_plan's parsing_tasks, in dispatch order
    finished,         \* indices of the tasks that are done
    finish_order,     \* the same in completion order (kept by SpecOrder only)
    prompts,          \* every input() prompt issued, with its answer
    urls_met,         \* the links execute_plan has come across, each with
                      \* whether its host was in the trust list at that time
    \* Orchestrator.process_message, the reasoning loop
    memory,           \* whether the Orchestrator was given a ProjectMemory
    scheduler,        \* whether the Orchestrator was given a TaskRunner
    local_provider,   \* TriageEngine.local_provider ("none" when not set)
    external_provider,\* TriageEngine.external_provider ("none" when not set)
    rpc,              \* where process_message's flow of control is
    turn,             \* the loop variable of "for turn in range(6)"
    directive,        \* tool_name and args of the Action the model asked for
    current_context,  \* the entries of current_context, in order
    final_msg,        \* final_msg
    model_log,        \* every triage.generate call made, in order
    \* ModelManager.generate
    default_provider, \* whether ModelManager._default_provider is set
    step_up_provider, \* whether ModelManager._step_up_provider is set
    complexity,       \* the complexity argument of the call
    struggling,       \* whether the machine's CPU or memory load is above
                      \* the thresholds while the call is made
    mpc,              \* where generate's flow of control is
    provider,         \* the local variable provider
    gateway_calls,    \* every provider.generate call made, in order
    generated,        \* the ModelResponse generate returned
    content,          \* the content of that ModelResponse
    \* TriageEngine.select_provider and TriageEngine.generate
    triage_task,      \* the task_type argument of the call
    cpu_load,         \* psutil.cpu_percent at the time of the call
    mem_load,         \* psutil.virtual_memory().percent at that time
    tpc,              \* where the call's flow of control is
    selected,         \* what select_provider returned
    backend_calls,    \* the providers whose generate was called, in order
    triage_response,  \* what TriageEngine.generate returned
    \* The fast paths of the two front-ends
    frontend,         \* "orchestrator" (process_message) or "cli" (CLIGateway.start)
    intent,           \* what triage.get_intent returned for the message
    hello,            \* whether the message is one of "hello", "hi", "hey"
    ipc,              \* where the handling of the message is
    tool_calls,       \* the smart_call_tool calls of the fast path, in order
    fast_reply,       \* what the fast path answered
    \* SessionManager
    lease_duration,   \* SessionManager.lease_duration, in clock ticks
    leases,           \* SessionManager.leases: user -> expiry time
    now,              \* time.time()
    granted_at,       \* per user, the time of the latest grant_lease
    last_call,        \* the latest call on the SessionManager, with its result
    \* The conversation history of a front-end
    history,          \* the front-end's history list of the sender
    rendered,         \* the entries joined into the prompt of the latest message
    turn_no,          \* the number of messages received so far
    \* Boss instances that share the trust list file
    bosses,           \* per instance: its stage, flag and in-memory trust list
    persist_log,      \* every trust-and-persist write so far, in order
    \* The outcomes of the background parsing tasks
    parse_log,        \* per finished task: whether the converter raised, and
                      \* the text the task resolved to
    \* Boss.plan_task, the extraction of the plan
    raw_output,       \* the raw output of the planner model
    extracted,        \* what plan_task returned for it
    \* TelegramGateway.handle_message
    tg_last,          \* the latest message handled, with what was done for it
    \* TaskRunner
    task_rows,        \* the rows of the tasks table, as committed
    runner,           \* the poll under way: its place, the rows it fetched
                      \* and the table as its open transaction sees it
    executed          \* per task, the times at which it was executed

wfVars    == <<entry, mcp_manager, plan, is_valid, phases, exec_result, response,
               cleaned_up>>
trustVars == <<session_approved, trusted_domains, trusted_file>>
loopVars  == <<step_idx, items, item_idx>>
outVars   == <<results, parsing_tasks, finished, finish_order>>
bossVars  == <<pc, wfVars, trustVars, loopVars, outVars, prompts, urls_met>>
reasonVars == <<memory, scheduler, local_provider, external_provider, rpc, turn,
                directive, current_context, final_msg, model_log>>
routerVars == <<default_provider, step_up_provider, complexity, struggling, mpc,
                provider, gateway_calls, generated, content>>
triageVars == <<triage_task, cpu_load, mem_load, tpc, selected, backend_calls, triage_response>>
intentVars == <<frontend, intent, hello, ipc, tool_calls, fast_reply>>
sessionVars == <<lease_duration, leases, now, granted_at, last_call>>
historyVars == <<history, rendered, turn_no>>
instanceVars == <<bosses, persist_log>>
parseVars == <<parse_log>>
extractVars == <<raw_output, extracted>>
telegramVars == <<tg_last>>
schedVars == <<task_rows, runner, executed>>
extraVars == <<parseVars, extractVars, telegramVars, schedVars>>
restVars == <<sessionVars, historyVars, instanceVars, extraVars>>
gatewayVars == <<triageVars, intentVars, restVars>>
\* for the actions of one component: the variables of the other ones
exceptTriage == <<bossVars, reasonVars, routerVars, intentVars, restVars>>
exceptIntent == <<bossVars, routerVars, triageVars, restVars>>
exceptSession == <<bossVars, reasonVars, routerVars, triageVars, intentVars,
                   historyVars, instanceVars, extraVars>>
exceptHistory == <<bossVars, reasonVars, routerVars, triageVars, intentVars,
                   sessionVars, instanceVars, extraVars>>
exceptInstances == <<reasonVars, routerVars, triageVars, intentVars, sessionVars,
                     historyVars, extraVars>>
otherVars == <<reasonVars, routerVars, gatewayVars>>
vars == <<bossVars, reasonVars, routerVars, gatewayVars>>

\* No request is in the reasoning loop.
ReasonIdle ==
    /\ memory = FALSE
    /\ scheduler = FALSE
    /\ local_provider = "none"
    /\ external_provider = "none"
    /\ rpc = "idle"
    /\ turn = 0
    /\ directive = [tool |-> "none", args |-> "none", outcome |-> "none",
                    handler |-> "none"]
    /\ current_context = << >>
    /\ final_msg = ""
    /\ model_log = << >>

\* No call of ModelManager.generate is under way.
RouterIdle ==
    /\ default_provider = FALSE
    /\ step_up_provider = FALSE
    /\ complexity = << >>
    /\ struggling = FALSE
    /\ mpc = "idle"
    /\ provider = "none"
    /\ gateway_calls = << >>
    /\ generated = "none"
    /\ content = << >>

\* No call of the TriageEngine is under way.
TriageIdle ==
    /\ triage_task = "none"
    /\ cpu_load = 0
    /\ mem_load = 0
    /\ tpc = "idle"
    /\ selected = "none"
    /\ backend_calls = << >>
    /\ triage_response = "none"

\* No message is being handled by a front-end.
IntentIdle ==
    /\ frontend = "orchestrator"
    /\ intent = "none"
    /\ hello = FALSE
    /\ ipc = "idle"
    /\ tool_calls = << >>
    /\ fast_reply = "none"

\* The Telegram gateway has handled no message yet.
NoMessage ==
    [user |-> "none", text |-> << >>, route |-> "none", replies |-> << >>,
     at |-> 0]

\* TaskRunner.__init__: self.running = False
RunnerOff ==
    [rpos |-> "off", poll_now |-> 0, batch |-> << >>, idx |-> 0,
     stage |-> "none", errors |-> 0]

\* No task outcome is recorded, no plan is being extracted, no Telegram
\* message was handled and the scheduler has no task.
ExtraIdle ==
    /\ parse_log = {}
    /\ raw_output = << >>
    /\ extracted = [returned |-> FALSE, plan |-> << >>]
    /\ tg_last = NoMessage
    /\ task_rows = << >>
    /\ runner = RunnerOff
    /\ executed = << >>

\* No SessionManager, no front-end history and no second Boss is in use.
RestIdle ==
    /\ lease_duration = 0
    /\ leases = << >>
    /\ now = 0
    /\ granted_at = << >>
    /\ last_call = "none"
    /\ history = << >>
    /\ rendered = << >>
    /\ turn_no = 0
    /\ bosses = << >>
    /\ persist_log = << >>
    /\ ExtraIdle

\* Nothing but the component under study is running.
GatewayIdle ==
    /\ TriageIdle
    /\ IntentIdle
    /\ RestIdle

\* The files a new Boss may find on disk.
InitialFiles == {NoFile, CorruptFile, FileOf(<<ArxivOrg>>)}

\* Boss.__init__, in either entry point.
Init ==
    /\ entry \in {"orchestrator", "deep_research"}
    /\ mcp_manager \in (IF entry = "orchestrator" THEN BOOLEAN ELSE {FALSE})
    /\ pc = "planning"
    /\ plan = << >>
    /\ is_valid = FALSE
    /\ phases = << >>
    /\ exec_result = "none"
    /\ response = "none"
    /\ cleaned_up = FALSE
    /\ session_approved = FALSE
    /\ trusted_file \in InitialFiles
    /\ trusted_domains = LoadTrustedDomains(trusted_file)
    /\ step_idx = 0
    /\ items = << >>
    /\ item_idx = 0
    /\ results = << >>
    /\ parsing_tasks = << >>
    /\ finished = {}
    /\ finish_order = << >>
    /\ prompts = << >>
    /\ urls_met = {}
    /\ ReasonIdle
    /\ RouterIdle
    /\ GatewayIdle

\* ------------------------------------------------------- the workflow
\* What releases the workers when the workflow is over: process_message
\* calls boss.cleanup() in a finally block, deep_research_workflow has no
\* call of it.
Finally(e) == e = "orchestrator"

\* cleaned_up once the action under way has set pc'.
CleanedUp == cleaned_up' = IF pc' \in {"done", "raised"} THEN Finally(entry) ELSE cleaned_up

\* if not plan: return ...
AfterPlanUnchecked(p) == "validating"

AfterPlan(p) == IF p = << >> THEN "done" ELSE "validating"

\* What the user gets for an empty plan: process_message returns "Could not
\* generate a research plan.", deep_research_workflow logs "Planning
\* failed. Aborting." at error level and returns None.
NoPlanResponse(e) == IF e = "orchestrator" THEN "could_not_plan" ELSE "planning_failed_logged"

\* Boss.plan_task, and the caller's check of its result.
PlanTask ==
    /\ pc = "planning"
    /\ \E p \in PlansUpTo(MaxPlanLen) :
        /\ plan' = p
        /\ phases' = Append(phases, "planning")
        /\ pc' = AfterPlan(p)
        /\ response' = IF pc' = "done" THEN NoPlanResponse(entry) ELSE response
    /\ CleanedUp
    /\ UNCHANGED <<entry, mcp_manager, is_valid, exec_result, trustVars, loopVars,
                   outVars, prompts, urls_met>>
    /\ UNCHANGED otherVars

\* Boss.validate_plan: "VALID" in response.content.upper()
ValidatePlanVerdict(reply) == Contains(Upper(reply), <<"V", "A", "L", "I", "D">>)

\* What the caller does with a rejected plan: process_message returns
\* "Plan validation failed."; deep_research_workflow warns and goes on.
AfterRejection(e) == IF e = "orchestrator" THEN "done" ELSE "executing"

ValidatePlan ==
    /\ pc = "validating"
    /\ \E reply \in ValidatorReplies :
        /\ is_valid' = ValidatePlanVerdict(reply)
        /\ phases' = Append(phases, "validating")
        /\ IF is_valid'
           THEN pc' = "executing" /\ response' = response
           ELSE /\ pc' = AfterRejection(entry)
                /\ response' = IF pc' = "done" THEN "validation_failed" ELSE response
    /\ CleanedUp
    /\ UNCHANGED <<entry, mcp_manager, plan, exec_result, trustVars, loopVars,
                   outVars, prompts, urls_met>>
    /\ UNCHANGED otherVars

\* process_message: results = await boss.execute_plan(plan)
\* deep_research_workflow: results = boss.execute_plan(plan), not awaited:
\* the coroutine object is created and its body never runs.
StartExecute ==
    /\ pc = "executing"
    /\ phases' = Append(phases, "executing")
    /\ IF entry = "orchestrator"
       THEN /\ pc' = "step"
            /\ step_idx' = 1
            /\ exec_result' = exec_result
       ELSE /\ pc' = "synthesizing"
            /\ step_idx' = step_idx
            /\ exec_result' = "coroutine"
    /\ UNCHANGED <<entry, mcp_manager, plan, is_valid, response, cleaned_up, trustVars, items,
                   item_idx, outVars, prompts, urls_met>>
    /\ UNCHANGED otherVars

\* Boss.synthesize: "\n\n".join(execution_results) raises TypeError when it
\* is handed a coroutine object instead of a list; save_report raises when
\* the report cannot be written.
Synthesize ==
    /\ pc = "synthesizing"
    /\ phases' = Append(phases, "synthesizing")
    /\ \E saved \in BOOLEAN :
        IF exec_result = "list" /\ saved
        THEN pc' = "done" /\ response' = "summary_and_report"
        ELSE pc' = "raised" /\ response' = response
    /\ CleanedUp
    /\ UNCHANGED <<entry, mcp_manager, plan, is_valid, exec_result, trustVars,
                   loopVars, outVars, prompts, urls_met>>
    /\ UNCHANGED otherVars

\* ----------------------------------------------------- Boss.execute_plan
CurStep == plan[step_idx]

\* The flow of execute_plan is suspended at an await: the event loop runs
\* the background tasks only then.
Suspended ==
    pc \in {"await_tool", "prompt_include", "prompt_stepinto", "prompt_batch",
            "prompt_link", "gather"}

\* An input() prompt, as issued; its answer is filled in when it comes.
Prompt(kind, link) ==
    [kind |-> kind, link |-> link, step |-> step_idx, answer |-> "pending"]

\* The prompt returns at once and is left waiting for its answer.
AnsweredLeftPending(choice) == prompts

Answered(choice) == [prompts EXCEPT ![Len(prompts)].answer = choice]

\* asyncio.create_task(_parse_background(title, link)); via records the
\* branch that allowed it.
Task(link, kind, via) == [link |-> link, kind |-> kind, via |-> via, step |-> step_idx]

\* A link execute_plan comes across.
Met(link) ==
    [link |-> link, host_trusted |-> Netloc(Url(link)) \in Range(trusted_domains)]

\* A result of a step, appended as the step runs
StepResult(type) == [type |-> type, step |-> step_idx, task |-> 0, link |-> "none"]

\* The text _parse_background returns for task i
ParseResult(tasks, i) ==
    [type |-> "parsed", step |-> tasks[i].step, task |-> i, link |-> tasks[i].link]

\* The approval gate of a link: auto-approved when a trusted domain occurs
\* in it, else prompted unless the session is approved.
LinkGatePromptFirst(link, list, approved) ==
    IF ~approved THEN "prompt"
    ELSE IF IsTrusted(link, list) THEN "trusted" ELSE "session"

LinkGateIgnoreSession(link, list, approved) ==
    IF IsTrusted(link, list) THEN "trusted" ELSE "prompt"

LinkGate(link, list, approved) ==
    IF IsTrusted(link, list) THEN "trusted"
    ELSE IF ~approved THEN "prompt" ELSE "session"

\* if not self.session_approved and search_results
NeedsBatchPrompt(approved, search_results) == ~approved /\ search_results # << >>

\* if not self.session_approved and ("search" in action or "get" in action)
NeedsIncludePrompt(approved, action) ==
    /\ ~approved
    /\ \/ Contains(ActionText(action), SearchText)
       \/ Contains(ActionText(action), GetText)

\* if "search_arxiv" in action or "search_pubmed" in action
IsAcademicSearch(action) ==
    \/ Contains(ActionText(action), SearchArxivText)
    \/ Contains(ActionText(action), SearchPubmedText)

\* The loop goes on to the next plan step.
NextStep ==
    /\ pc' = "step"
    /\ step_idx' = step_idx + 1
    /\ items' = << >>
    /\ item_idx' = 0

\* worker == "mcp" and self.mcp_manager: await smart_call_tool(action, args)
StepMcp ==
    /\ pc = "step" /\ step_idx <= Len(plan)
    /\ CurStep.worker = "mcp" /\ mcp_manager
    /\ pc' = "await_tool"
    /\ UNCHANGED <<wfVars, trustVars, loopVars, outVars, prompts, urls_met>>
    /\ UNCHANGED otherVars

\* The tool call returns or raises; a raise is caught as an Error result.
ToolReturn ==
    /\ pc = "await_tool"
    /\ \E ok \in BOOLEAN :
        IF ~ok
        THEN /\ results' = Append(results, StepResult("error"))
             /\ NextStep
             /\ prompts' = prompts
        ELSE /\ results' = results
             /\ UNCHANGED loopVars
             /\ IF NeedsIncludePrompt(session_approved, CurStep.action)
                THEN /\ pc' = "prompt_include"
                     /\ prompts' = Append(prompts, Prompt("include", "none"))
                ELSE /\ pc' = "include"
                     /\ prompts' = prompts
    /\ UNCHANGED <<wfVars, trustVars, parsing_tasks, finished, finish_order, urls_met>>
    /\ UNCHANGED otherVars

\* "Include these results in the research context? [Y/n]"
AnswerInclude ==
    /\ pc = "prompt_include"
    /\ \E choice \in {"y", "n"} :
        /\ prompts' = Answered(choice)
        /\ IF choice = "n" THEN NextStep ELSE pc' = "include" /\ UNCHANGED loopVars
    /\ UNCHANGED <<wfVars, trustVars, outVars, urls_met>>
    /\ UNCHANGED otherVars

\* results.append(Source ...), then the "step into" links of the result
IncludeResults ==
    /\ pc = "include"
    /\ results' = Append(results, StepResult("source"))
    /\ LET pdf_links == IF IsAcademicSearch(CurStep.action)
                        THEN FilterPdf(ToolLinks(CurStep.action)) ELSE << >>
       IN  IF pdf_links # << >>
           THEN /\ pc' = "stepinto"
                /\ items' = Take(pdf_links, 2)
                /\ item_idx' = 1
                /\ step_idx' = step_idx
           ELSE NextStep
    /\ UNCHANGED <<wfVars, trustVars, parsing_tasks, finished, finish_order, prompts, urls_met>>
    /\ UNCHANGED otherVars

\* for link in pdf_links[:2]
StepInto ==
    /\ pc = "stepinto"
    /\ IF item_idx > Len(items)
       THEN NextStep /\ UNCHANGED <<parsing_tasks, prompts, urls_met>>
       ELSE LET link == items[item_idx]
                gate == LinkGate(link, trusted_domains, session_approved)
            IN  /\ urls_met' = urls_met \cup {Met(link)}
                /\ step_idx' = step_idx /\ items' = items
                /\ IF gate = "prompt"
                   THEN /\ pc' = "prompt_stepinto"
                        /\ prompts' = Append(prompts, Prompt("stepinto", link))
                        /\ item_idx' = item_idx
                        /\ parsing_tasks' = parsing_tasks
                   ELSE /\ pc' = "stepinto"
                        /\ prompts' = prompts
                        /\ item_idx' = item_idx + 1
                        /\ parsing_tasks' = Append(parsing_tasks, Task(link, "paper", gate))
    /\ UNCHANGED <<wfVars, trustVars, results, finished, finish_order>>
    /\ UNCHANGED otherVars

\* "'Step into' this paper? [Y/n]"
AnswerStepInto ==
    /\ pc = "prompt_stepinto"
    /\ \E choice \in {"y", "n"} :
        /\ prompts' = Answered(choice)
        /\ parsing_tasks' = IF choice # "n"
                            THEN Append(parsing_tasks, Task(items[item_idx], "paper", "prompt"))
                            ELSE parsing_tasks
    /\ pc' = "stepinto"
    /\ item_idx' = item_idx + 1
    /\ UNCHANGED <<wfVars, trustVars, step_idx, items, results, finished, finish_order, urls_met>>
    /\ UNCHANGED otherVars

\* worker == "ddg": the search, then the batch prompt
StepDdg ==
    /\ pc = "step" /\ step_idx <= Len(plan)
    /\ CurStep.worker = "ddg"
    /\ IF ArgsGet(CurStep, "query") = ""
       THEN NextStep /\ prompts' = prompts
       ELSE LET search_results == SearchResults(ArgsGet(CurStep, "query"))
            IN  /\ items' = search_results
                /\ item_idx' = 1
                /\ step_idx' = step_idx
                /\ IF NeedsBatchPrompt(session_approved, search_results)
                   THEN /\ pc' = "prompt_batch"
                        /\ prompts' = Append(prompts, Prompt("batch", "none"))
                   ELSE /\ pc' = "links"
                        /\ prompts' = prompts
    /\ UNCHANGED <<wfVars, trustVars, outVars, urls_met>>
    /\ UNCHANGED otherVars

\* "Approve all links for this research session? [y/N/all]"
AnswerBatch ==
    /\ pc = "prompt_batch"
    /\ \E choice \in {"y", "all"} :
        /\ prompts' = Answered(choice)
        /\ session_approved' = IF choice = "all" THEN TRUE ELSE session_approved
    /\ pc' = "links"
    /\ UNCHANGED <<wfVars, trusted_domains, trusted_file, loopVars, outVars, urls_met>>
    /\ UNCHANGED otherVars

\* for i, item in enumerate(search_results)
LinkLoop ==
    /\ pc = "links"
    /\ IF item_idx > Len(items)
       THEN NextStep /\ UNCHANGED <<parsing_tasks, prompts, urls_met>>
       ELSE LET link == items[item_idx]
                gate == LinkGate(link, trusted_domains, session_approved)
            IN  /\ urls_met' = urls_met \cup {Met(link)}
                /\ step_idx' = step_idx /\ items' = items
                /\ IF gate = "prompt"
                   THEN /\ pc' = "prompt_link"
                        /\ prompts' = Append(prompts, Prompt("link", link))
                        /\ item_idx' = item_idx
                        /\ parsing_tasks' = parsing_tasks
                   ELSE /\ pc' = "links"
                        /\ prompts' = prompts
                        /\ item_idx' = item_idx + 1
                        /\ parsing_tasks' = Append(parsing_tasks, Task(link, "search", gate))
    /\ UNCHANGED <<wfVars, trustVars, results, finished, finish_order>>
    /\ UNCHANGED otherVars

\* What the answer to a link prompt does to the loop over the batch:
\* 'stop' breaks out of it, every other answer goes on to the next link.
AfterLinkAnswerNoBreak(choice) == "continue"

AfterLinkAnswer(choice) == IF choice = "stop" THEN "break" ELSE "continue"

\* "Visit this link? [Y/n/stop/trust]"
AnswerLink ==
    /\ pc = "prompt_link"
    /\ \E choice \in {"y", "n", "stop", "trust"} :
        LET link    == items[item_idx]
            trusted == TrustDomain(trusted_domains, trusted_file, Netloc(Url(link)))
        IN  /\ prompts' = Answered(choice)
            /\ IF choice = "trust"
               THEN /\ trusted_domains' = trusted.list
                    /\ trusted_file' = trusted.file
               ELSE UNCHANGED <<trusted_domains, trusted_file>>
            /\ IF AfterLinkAnswer(choice) = "break"
               THEN NextStep
               ELSE /\ pc' = "links"
                    /\ item_idx' = item_idx + 1
                    /\ UNCHANGED <<step_idx, items>>
            /\ parsing_tasks' = IF choice \in {"n", "stop"}
                                THEN parsing_tasks
                                ELSE Append(parsing_tasks, Task(link, "search", "prompt"))
    /\ UNCHANGED <<wfVars, session_approved, results, finished, finish_order, urls_met>>
    /\ UNCHANGED otherVars

\* worker == "docling": the url of a parse_url, the file of a parse_file
\* are dispatched as they stand
StepDocling ==
    /\ pc = "step" /\ step_idx <= Len(plan)
    /\ CurStep.worker = "docling"
    /\ LET url       == ArgsGet(CurStep, "url")
           file_path == ArgsGet(CurStep, "file_path")
       IN  IF CurStep.action = "parse_url" /\ url # ""
           THEN /\ parsing_tasks' = Append(parsing_tasks, Task(url, "manual", "direct"))
                /\ urls_met' = urls_met \cup {Met(url)}
           ELSE IF CurStep.action = "parse_file" /\ file_path # ""
           THEN /\ parsing_tasks' = Append(parsing_tasks, Task(file_path, "file", "direct"))
                /\ urls_met' = urls_met
           ELSE UNCHANGED <<parsing_tasks, urls_met>>
    /\ NextStep
    /\ UNCHANGED <<wfVars, trustVars, results, finished, finish_order, prompts>>
    /\ UNCHANGED otherVars

\* step.get on an entry that is no mapping: the AttributeError leaves
\* execute_plan.
StepNotMappingRaises ==
    /\ pc = "step" /\ step_idx <= Len(plan)
    /\ CurStep.type # "dict"
    /\ pc' = "raised"
    /\ CleanedUp
    /\ UNCHANGED <<entry, mcp_manager, plan, is_valid, phases, exec_result, response,
                   trustVars, loopVars, outVars, prompts, urls_met>>
    /\ UNCHANGED otherVars

\* if not isinstance(step, dict): continue
StepNotMapping ==
    /\ pc = "step" /\ step_idx <= Len(plan)
    /\ CurStep.type # "dict"
    /\ NextStep
    /\ UNCHANGED <<wfVars, trustVars, outVars, prompts, urls_met>>
    /\ UNCHANGED otherVars

\* A step no branch takes (an "mcp" step of a Boss without MCP manager, a
\* step of an unknown worker)
StepSkip ==
    /\ pc = "step" /\ step_idx <= Len(plan)
    /\ CurStep.type = "dict"
    /\ ~(CurStep.worker = "mcp" /\ mcp_manager)
    /\ CurStep.worker \notin {"ddg", "docling"}
    /\ NextStep
    /\ UNCHANGED <<wfVars, trustVars, outVars, prompts, urls_met>>
    /\ UNCHANGED otherVars

\* A background task's parse ends; the event loop completes the task.
TaskFinish ==
    /\ Suspended
    /\ \E i \in 1..Len(parsing_tasks) :
        /\ i \notin finished
        /\ finished' = finished \cup {i}
    /\ UNCHANGED <<pc, wfVars, trustVars, loopVars, results, parsing_tasks,
                   finish_order, prompts, urls_met>>
    /\ UNCHANGED otherVars

\* The same, with the order of completion recorded.
TaskFinishOrdered ==
    /\ Suspended
    /\ \E i \in 1..Len(parsing_tasks) :
        /\ i \notin finished
        /\ finished' = finished \cup {i}
        /\ finish_order' = Append(finish_order, i)
    /\ UNCHANGED <<pc, wfVars, trustVars, loopVars, results, parsing_tasks,
                   prompts, urls_met>>
    /\ UNCHANGED otherVars

\* asyncio.gather(*parsing_tasks) returns once every task has finished ...
GatherReadyAny(tasks, done) == \E i \in 1..Len(tasks) : i \in done

GatherReady(tasks, done) == \A i \in 1..Len(tasks) : i \in done

\* ... with the tasks' results in the order of its arguments.
GatherInCompletionOrder(tasks) ==
    [k \in 1..Len(finish_order) |-> ParseResult(tasks, finish_order[k])]

GatherDropsLast(tasks) == [i \in 1..(Len(tasks) - 1) |-> ParseResult(tasks, i)]

Gather(tasks) == [i \in 1..Len(tasks) |-> ParseResult(tasks, i)]

\* The plan is exhausted: if parsing_tasks: await gather, else return.
StepsDone ==
    /\ pc = "step" /\ step_idx > Len(plan)
    /\ IF parsing_tasks # << >>
       THEN pc' = "gather" /\ exec_result' = exec_result
       ELSE pc' = "synthesizing" /\ exec_result' = "list"
    /\ UNCHANGED <<entry, mcp_manager, plan, is_valid, phases, response, cleaned_up,
                   trustVars, loopVars, outVars, prompts, urls_met>>
    /\ UNCHANGED otherVars

\* results.extend(background_results); return results
GatherReturn ==
    /\ pc = "gather"
    /\ GatherReady(parsing_tasks, finished)
    /\ results' = results \o Gather(parsing_tasks)
    /\ pc' = "synthesizing"
    /\ exec_result' = "list"
    /\ UNCHANGED <<entry, mcp_manager, plan, is_valid, phases, response, cleaned_up,
                   trustVars, loopVars, parsing_tasks, finished, finish_order, prompts,
                   urls_met>>
    /\ UNCHANGED otherVars

Next ==
    \/ PlanTask
    \/ ValidatePlan
    \/ StartExecute
    \/ StepMcp
    \/ ToolReturn
    \/ AnswerInclude
    \/ IncludeResults
    \/ StepInto
    \/ AnswerStepInto
    \/ StepDdg
    \/ AnswerBatch
    \/ LinkLoop
    \/ AnswerLink
    \/ StepDocling
    \/ StepSkip
    \/ TaskFinish
    \/ StepsDone
    \/ GatherReturn
    \/ Synthesize

Spec == Init /\ [][Next]_vars

\* --------------------------------------- the order of background results
\* The plans whose steps all dispatch background tasks.
OrderStepKinds == {k \in StepKinds : k.arg \in {"qa", "news_a"} \/ k.action = "search_arxiv"}

PlanTaskOrder ==
    /\ pc = "planning"
    /\ \E k \in 1..MaxPlanLen : \E p \in [1..k -> OrderStepKinds] : plan' = p
    /\ phases' = Append(phases, "planning")
    /\ pc' = "validating"
    /\ UNCHANGED <<entry, mcp_manager, is_valid, exec_result, response, cleaned_up,
                   trustVars, loopVars, outVars, prompts, urls_met>>
    /\ UNCHANGED otherVars

InitOrder ==
    /\ Init
    /\ entry = "orchestrator"
    /\ mcp_manager
    /\ trusted_file = NoFile

NextOrder ==
    \/ PlanTaskOrder
    \/ ValidatePlan
    \/ StartExecute
    \/ StepMcp
    \/ ToolReturn
    \/ AnswerInclude
    \/ IncludeResults
    \/ StepInto
    \/ AnswerStepInto
    \/ StepDdg
    \/ AnswerBatch
    \/ LinkLoop
    \/ AnswerLink
    \/ StepDocling
    \/ TaskFinishOrdered
    \/ StepsDone
    \/ GatherReturn
    \/ Synthesize

SpecOrder == InitOrder /\ [][NextOrder]_vars

\* ------------------------------------------------- plans with loose entries
\* The planner emits entries of every shape; the Boss has no MCP manager.
PlanTaskLoose ==
    /\ pc = "planning"
    /\ \E p \in PlansOf(LooseStepKinds, MaxPlanLen) : plan' = p
    /\ phases' = Append(phases, "planning")
    /\ pc' = "validating"
    /\ UNCHANGED <<entry, mcp_manager, is_valid, exec_result, response, cleaned_up,
                   trustVars, loopVars, outVars, prompts, urls_met>>
    /\ UNCHANGED otherVars

InitLoose ==
    /\ Init
    /\ entry = "orchestrator"
    /\ ~mcp_manager

NextLoose ==
    \/ PlanTaskLoose
    \/ ValidatePlan
    \/ StartExecute
    \/ StepNotMapping
    \/ StepDdg
    \/ StepDocling
    \/ StepSkip
    \/ TaskFinish
    \/ StepsDone
    \/ GatherReturn
    \/ Synthesize

SpecLoose == InitLoose /\ [][NextLoose]_vars

\* ------------------------------------------ trust-and-persist on its own
\* The user answers 'trust' for a link, whatever the trust list holds: the
\* 'trust' branch of AnswerLink applied to every link and every list.
TrustLinks == Links \cup {"bare"}

TrustAnswer ==
    /\ \E link \in TrustLinks :
        LET trusted == TrustDomain(trusted_domains, trusted_file, Netloc(Url(link)))
        IN  /\ trusted_domains' = trusted.list
            /\ trusted_file' = trusted.file
            /\ prompts' = <<[Prompt("link", link) EXCEPT !.answer = "trust"]>>
    /\ UNCHANGED <<pc, wfVars, session_approved, loopVars, outVars, urls_met>>
    /\ UNCHANGED otherVars

\* A new Boss loads the list that was persisted.
NewBoss ==
    /\ prompts # << >>
    /\ trusted_domains' = LoadTrustedDomains(trusted_file)
    /\ prompts' = << >>
    /\ UNCHANGED <<pc, wfVars, session_approved, trusted_file, loopVars, outVars,
                   urls_met>>
    /\ UNCHANGED otherVars

InitTrust ==
    /\ Init
    /\ entry = "orchestrator"
    /\ mcp_manager

SpecTrust == InitTrust /\ [][TrustAnswer \/ NewBoss]_vars

\* ----------------------- Orchestrator.process_message: the reasoning loop
\* for turn in range(6)
TurnBudget == 6

\* if turn == 5
LastTurn == 5

\* The entries current_context is made of.
FinalInstruction == "System: Please provide your final answer now."

\* The Action directives a response of the model may hold: the tool named
\* and whether the text between its brackets is JSON that json.loads takes.
ToolNames == {"remember", "recall", "schedule", "known_tool", "unknown_tool"}

Directives ==
    [tool : ToolNames, args : {"json", "bad_json"}, outcome : {"pending"},
     handler : {"pending"}]

NoDirective == [tool |-> "none", args |-> "none", outcome |-> "none", handler |-> "none"]

\* TriageEngine.select_provider
SelectProviderAnyTask(task_type, is_struggling, local, external) ==
    IF is_struggling /\ external # "none"
    THEN external
    ELSE IF local # "none" THEN local ELSE external

SelectProvider(task_type, is_struggling, local, external) ==
    IF task_type = "Thought" /\ is_struggling /\ external # "none"
    THEN external
    ELSE IF local # "none" THEN local ELSE external

\* What provider.generate may do. A local provider catches its failures and
\* returns "Error running local model: ..." as the response; the providers
\* of remote APIs let the exception of the client library through.
ProviderOutcomes(p) ==
    IF p = "local"
    THEN {"directive", "answer", "empty_answer", "error_text"}
    ELSE {"directive", "answer", "empty_answer", "raise"}

\* What TriageEngine.generate may do for the caller.
TriageOutcomesUnguarded(task_type, is_struggling, local, external) ==
    ProviderOutcomes(SelectProvider(task_type, is_struggling, local, external))

TriageOutcomes(task_type, is_struggling, local, external) ==
    LET p == SelectProvider(task_type, is_struggling, local, external)
    IN  IF p = "none" THEN {"no_provider"} ELSE ProviderOutcomes(p)

\* final_msg = response.replace("Final Answer:", "").strip()
FinalMsg(kind) == IF kind = "empty_answer" THEN "" ELSE kind

\* A triage.generate call, as logged: saw_instruction tells whether the
\* context it was given held the final-answer instruction.
ModelCall(task, kind) ==
    [task |-> task, kind |-> kind,
     saw_instruction |-> task = "loop" /\ FinalInstruction \in Range(current_context)]

\* Who is handed the directive: if tool_name == "remember" and self.memory
\* ... elif "recall" and self.memory ... elif "schedule" and self.scheduler
\* ... else: await self.mcp_manager.smart_call_tool(tool_name, args). Args
\* that json.loads refuses raise before this, and without an MCP manager
\* the else branch raises on None: the directive is handed to nobody.
HandlerOf(d, mem, sch, mcp) ==
    IF d.args = "bad_json" THEN "none"
    ELSE IF d.tool = "remember" /\ mem THEN "local"
    ELSE IF d.tool = "recall" /\ mem THEN "local"
    ELSE IF d.tool = "schedule" /\ sch THEN "local"
    ELSE IF mcp THEN "tool_directory"
    ELSE "none"

\* What the try block of a turn may do with the directive: "raise" stands
\* for any exception raised in it.
ToolOutcomes(d, mem, sch, mcp) ==
    IF d.args = "bad_json" THEN {"raise"}
    ELSE IF d.tool = "remember" /\ mem THEN {"ok", "raise"}
    ELSE IF d.tool = "recall" /\ mem THEN {"ok", "raise"}
    ELSE IF d.tool = "schedule" /\ sch THEN {"ok", "raise"}
    ELSE IF ~mcp THEN {"raise"}
    ELSE IF d.tool = "known_tool" THEN {"ok", "raise"}
    ELSE {"raise"}

\* What a turn appends to current_context.
Observed(outcome, t) ==
    IF outcome = "ok"
    THEN <<"Assistant", "Observation">>
         \o (IF t = LastTurn THEN <<FinalInstruction>> ELSE << >>)
    ELSE <<"Assistant", "Observation: Error">>

\* Where the flow goes after the try block of turn t.
AfterActionFatal(outcome, t) ==
    IF outcome = "raise" THEN "raised"
    ELSE IF t + 1 < TurnBudget THEN "generate" ELSE "after_loop"

AfterActionOneMore(outcome, t) == IF t + 1 < TurnBudget + 1 THEN "generate" ELSE "after_loop"

AfterAction(outcome, t) == IF t + 1 < TurnBudget THEN "generate" ELSE "after_loop"

\* response = self.triage.generate(current_context, ...), the search for
\* an Action in it, and the break on a response without one. The call is
\* in no try block: an exception of the provider leaves process_message.
Generate ==
    /\ rpc = "generate"
    /\ \E is_struggling \in BOOLEAN :
       \E kind \in TriageOutcomes("Thought", is_struggling, local_provider,
                                  external_provider) :
        /\ model_log' = Append(model_log, ModelCall("loop", kind))
        /\ IF kind = "raise"
           THEN rpc' = "raised" /\ UNCHANGED <<directive, final_msg>>
           ELSE IF kind = "directive"
           THEN /\ rpc' = "tool"
                /\ directive' \in Directives
                /\ final_msg' = final_msg
           ELSE /\ rpc' = "after_loop"
                /\ final_msg' = FinalMsg(kind)
                /\ directive' = directive
    /\ UNCHANGED <<memory, scheduler, local_provider, external_provider, turn,
                   current_context>>
    /\ UNCHANGED <<bossVars, routerVars, gatewayVars>>

\* The try block of a turn: the args are parsed, the built-in action or the
\* MCP tool runs, and the observation (or the error) is appended.
ExecuteAction ==
    /\ rpc = "tool"
    /\ \E outcome \in ToolOutcomes(directive, memory, scheduler, mcp_manager) :
        /\ directive' = [directive EXCEPT
                            !.outcome = outcome,
                            !.handler = HandlerOf(directive, memory, scheduler,
                                                  mcp_manager)]
        /\ current_context' = current_context \o Observed(outcome, turn)
        /\ rpc' = AfterAction(outcome, turn)
    /\ turn' = turn + 1
    /\ UNCHANGED <<memory, scheduler, local_provider, external_provider, final_msg,
                   model_log>>
    /\ UNCHANGED <<bossVars, routerVars, gatewayVars>>

\* if self.memory and final_msg: an empty final_msg is falsy
NeedsReflectionAnyMsg(mem, msg) == mem

NeedsReflection(mem, msg) == mem /\ msg # ""

\* if self.memory and final_msg: the reflection call and the stores it
\* asks for, none of them in a try block. The STORE and UPDATE lines of the
\* reply are written to the note store here and nowhere else.
Reflect ==
    /\ rpc = "after_loop"
    /\ NeedsReflection(memory, final_msg)
    /\ \E is_struggling \in BOOLEAN :
       \E kind \in TriageOutcomes("Thought", is_struggling, local_provider,
                                  external_provider) :
        /\ model_log' = Append(model_log, ModelCall("reflect", kind))
        /\ rpc' = IF kind = "raise" THEN "raised" ELSE "returned"
    /\ UNCHANGED <<memory, scheduler, local_provider, external_provider, turn,
                   directive, current_context, final_msg>>
    /\ UNCHANGED <<bossVars, routerVars, gatewayVars>>

\* return final_msg
ReturnFinalMsg ==
    /\ rpc = "after_loop"
    /\ ~NeedsReflection(memory, final_msg)
    /\ rpc' = "returned"
    /\ UNCHANGED <<memory, scheduler, local_provider, external_provider, turn,
                   directive, current_context, final_msg, model_log>>
    /\ UNCHANGED <<bossVars, routerVars, gatewayVars>>

\* No research workflow is under way.
BossIdle ==
    /\ entry = "orchestrator"
    /\ pc = "idle"
    /\ plan = << >>
    /\ is_valid = FALSE
    /\ phases = << >>
    /\ exec_result = "none"
    /\ response = "none"
    /\ cleaned_up = FALSE
    /\ session_approved = FALSE
    /\ trusted_file = NoFile
    /\ trusted_domains = DefaultTrusted
    /\ step_idx = 0
    /\ items = << >>
    /\ item_idx = 0
    /\ results = << >>
    /\ parsing_tasks = << >>
    /\ finished = {}
    /\ finish_order = << >>
    /\ prompts = << >>
    /\ urls_met = {}

\* A message that no fast path takes reaches the loop:
\* current_context = f"{chat_history}\nUser: {user_input}"
InitLoop ==
    /\ BossIdle
    /\ RouterIdle
    /\ GatewayIdle
    /\ mcp_manager \in BOOLEAN
    /\ memory \in BOOLEAN
    /\ scheduler \in BOOLEAN
    /\ local_provider \in {"none", "local"}
    /\ external_provider \in {"none", "openai"}
    /\ rpc = "generate"
    /\ turn = 0
    /\ directive = NoDirective
    /\ current_context = <<"User">>
    /\ final_msg = ""
    /\ model_log = << >>

NextLoop ==
    \/ Generate
    \/ ExecuteAction
    \/ Reflect
    \/ ReturnFinalMsg

SpecLoop == InitLoop /\ [][NextLoop]_vars

\* process_message is a coroutine the event loop runs to its end; a model
\* call is a blocking call, a tool call returns or raises.
SpecLoopFair == SpecLoop /\ WF_vars(NextLoop)

\* -------------------------------------------------- ModelManager.generate
\* Python: s.lower()
Lower(s) ==
    [i \in 1..Len(s) |->
        IF \E k \in 1..26 : UpperCase[k] = s[i]
        THEN LowerCase[CHOOSE k \in 1..26 : UpperCase[k] = s[i]]
        ELSE s[i]]

HighText == <<"h", "i", "g", "h">>

\* The values callers pass as complexity.
Complexities ==
    { <<"l", "o", "w">>, HighText, <<"H", "I", "G", "H">>, <<"H", "i", "g", "h">>,
      <<"h", "i", "g", "h", "e", "r">> }

\* if complexity.lower() == "high" and self._step_up_provider
StepUpWhateverComplexity(c, step_up) == step_up

StepUpChosen(c, step_up) == Lower(c) = HighText /\ step_up

\* if provider == self._step_up_provider and self._default_provider
ShouldRetryNever(p, default) == FALSE

ShouldRetry(p, default) == p = "step_up" /\ default

\* What a provider's generate, followed by _parse_response, may do inside
\* the try block: text that is parsed, a value that _parse_response cannot
\* take (None), or an exception of the provider.
CallOutcomes == {"text", "none", "raise"}

GatewayCall(gateway, outcome) == [gateway |-> gateway, outcome |-> outcome]

\* The first index at which tag occurs in s (0 when it does not occur)
Find(s, tag) ==
    IF Contains(s, tag)
    THEN CHOOSE i \in 1..Len(s) :
            /\ i + Len(tag) - 1 <= Len(s)
            /\ SubSeq(s, i, i + Len(tag) - 1) = tag
            /\ \A j \in 1..(i - 1) :
                  ~(j + Len(tag) - 1 <= Len(s) /\ SubSeq(s, j, j + Len(tag) - 1) = tag)
    ELSE 0

\* Python: s.split(tag, 1)[1]
After(s, tag) == SubSeq(s, Find(s, tag) + Len(tag), Len(s))

\* Python: s.strip(), for the blanks of the texts used here
RECURSIVE Strip(_)
Strip(s) ==
    IF s = << >> THEN s
    ELSE IF s[1] = " " THEN Strip(Tail(s))
    ELSE IF s[Len(s)] = " " THEN Strip(SubSeq(s, 1, Len(s) - 1))
    ELSE s

ThoughtTag == <<"T", "h", "o", "u", "g", "h", "t", ":">>
FinalAnswerTag == <<"F", "i", "n", "a", "l", " ", "A", "n", "s", "w", "e", "r", ":">>
ContentTag == <<"C", "o", "n", "t", "e", "n", "t", ":">>

\* ModelManager._parse_response: the content of the ModelResponse
ParseContent(text) ==
    IF Contains(text, ThoughtTag)
    THEN LET parts == After(text, ThoughtTag)
         IN  IF Contains(parts, FinalAnswerTag) THEN Strip(After(parts, FinalAnswerTag))
             ELSE IF Contains(parts, ContentTag) THEN Strip(After(parts, ContentTag))
             ELSE text
    ELSE text

\* The raw texts a provider may return to a validation prompt.
RawReplies ==
    ValidatorReplies \cup { <<"T", "h", "o", "u", "g", "h", "t", ":", " ", "f", "i", "n", "e", " ", "F", "i", "n", "a", "l", " ", "A", "n", "s", "w", "e", "r", ":", " ", "V", "A", "L", "I", "D">> }

\* str(e) of the exceptions a provider's client library may raise.
ErrorTexts == { <<"t", "i", "m", "e", "d", " ", "o", "u", "t">>, <<"I", "n", "v", "a", "l", "i", "d", " ", "A", "P", "I", " ", "k", "e", "y">> }

\* str(e) of the TypeError _parse_response raises when given None.
NoneTypeError == <<"a", "r", "g", "u", "m", "e", "n", "t", " ", "o", "f", " ", "t", "y", "p", "e", " ", "'", "N", "o", "n", "e", "T", "y", "p", "e", "'", " ", "i", "s", " ", "n", "o", "t", " ", "i", "t", "e", "r", "a", "b", "l", "e">>

\* str(e) of the exception a call with the given outcome ends in.
ErrorsOf(outcome) == IF outcome = "none" THEN {NoneTypeError} ELSE ErrorTexts

\* The content of the three failure responses of generate.
NoProviderContent == <<"N", "o", " ", "m", "o", "d", "e", "l", " ", "p", "r", "o", "v", "i", "d", "e", "r", " ", "a", "v", "a", "i", "l", "a", "b", "l", "e", ".">>
GenerationFailedContent(e) == <<"G", "e", "n", "e", "r", "a", "t", "i", "o", "n", " ", "f", "a", "i", "l", "e", "d", ":", " ">> \o e
BothFailedContent(e) == <<"B", "o", "t", "h", " ", "m", "o", "d", "e", "l", "s", " ", "f", "a", "i", "l", "e", "d", ":", " ">> \o e

\* The choice of the provider, with the reload of the models when there is
\* none: _load_models may or may not find a default and a step-up model.
RouterSelect ==
    /\ mpc = "select"
    /\ IF StepUpChosen(complexity, step_up_provider)
       THEN /\ provider' = "step_up"
            /\ mpc' = "call"
            /\ UNCHANGED <<default_provider, step_up_provider, generated, content>>
       ELSE IF default_provider
       THEN /\ provider' = "default"
            /\ mpc' = "call"
            /\ UNCHANGED <<default_provider, step_up_provider, generated, content>>
       ELSE \E d \in BOOLEAN, s \in BOOLEAN :
            /\ default_provider' = d
            /\ step_up_provider' = s
            /\ provider' = IF d THEN "default" ELSE "none"
            /\ mpc' = IF d THEN "call" ELSE "done"
            /\ generated' = IF d THEN generated ELSE "no_provider"
            /\ content' = IF d THEN content ELSE NoProviderContent
    /\ UNCHANGED <<complexity, struggling, gateway_calls>>
    /\ UNCHANGED <<bossVars, reasonVars, gatewayVars>>

\* raw_response = provider.generate(...); return self._parse_response(...)
ProviderCall ==
    /\ mpc = "call"
    /\ \E outcome \in CallOutcomes :
        /\ gateway_calls' = Append(gateway_calls, GatewayCall(provider, outcome))
        /\ IF outcome = "text"
           THEN /\ mpc' = "done"
                /\ generated' = "parsed"
                /\ \E raw \in RawReplies : content' = ParseContent(raw)
           ELSE IF ShouldRetry(provider, default_provider)
           THEN mpc' = "fallback" /\ UNCHANGED <<generated, content>>
           ELSE /\ mpc' = "done"
                /\ generated' = "generation_failed"
                /\ \E e \in ErrorsOf(outcome) : content' = GenerationFailedContent(e)
    /\ UNCHANGED <<default_provider, step_up_provider, complexity, struggling, provider>>
    /\ UNCHANGED <<bossVars, reasonVars, gatewayVars>>

\* The retry with the default model
FallbackCall ==
    /\ mpc = "fallback"
    /\ \E outcome \in CallOutcomes :
        /\ gateway_calls' = Append(gateway_calls, GatewayCall("default", outcome))
        /\ IF outcome = "text"
           THEN /\ generated' = "parsed"
                /\ \E raw \in RawReplies : content' = ParseContent(raw)
           ELSE /\ generated' = "both_failed"
                /\ \E ex \in ErrorsOf(outcome) : content' = BothFailedContent(ex)
    /\ mpc' = "done"
    /\ UNCHANGED <<default_provider, step_up_provider, complexity, struggling, provider>>
    /\ UNCHANGED <<bossVars, reasonVars, gatewayVars>>

\* The next call of generate on the same ModelManager
NextGenerate ==
    /\ mpc \in {"done", "validated"}
    /\ complexity' \in Complexities
    /\ struggling' \in BOOLEAN
    /\ mpc' = "select"
    /\ provider' = "none"
    /\ gateway_calls' = << >>
    /\ generated' = "none"
    /\ content' = << >>
    /\ is_valid' = FALSE
    /\ UNCHANGED <<default_provider, step_up_provider>>
    /\ UNCHANGED <<pc, entry, mcp_manager, plan, phases, exec_result, response,
                   cleaned_up, trustVars, loopVars, outVars, prompts, urls_met>>
    /\ UNCHANGED <<reasonVars, gatewayVars>>

\* Boss.validate_plan, after its call of generate has returned: the scan of
\* the response's content for the keyword
ValidateScan ==
    /\ mpc = "done"
    /\ is_valid' = ValidatePlanVerdict(content)
    /\ mpc' = "validated"
    /\ UNCHANGED <<default_provider, step_up_provider, complexity, struggling,
                   provider, gateway_calls, generated, content>>
    /\ UNCHANGED <<pc, entry, mcp_manager, plan, phases, exec_result, response,
                   cleaned_up, trustVars, loopVars, outVars, prompts, urls_met>>
    /\ UNCHANGED <<reasonVars, gatewayVars>>

\* ModelManager.__init__ and the first call of generate
InitRouter ==
    /\ BossIdle
    /\ mcp_manager = FALSE
    /\ ReasonIdle
    /\ GatewayIdle
    /\ default_provider \in BOOLEAN
    /\ step_up_provider \in BOOLEAN
    /\ complexity \in Complexities
    /\ struggling \in BOOLEAN
    /\ mpc = "select"
    /\ provider = "none"
    /\ gateway_calls = << >>
    /\ generated = "none"
    /\ content = << >>

NextRouter ==
    \/ RouterSelect
    \/ ProviderCall
    \/ FallbackCall
    \/ NextGenerate
    \/ ValidateScan

SpecRouter == InitRouter /\ [][NextRouter]_vars

\* ------------------------------------------------------------ TriageEngine
CpuThreshold == 70
MemThreshold == 70

\* The load readings around the thresholds.
Loads == {CpuThreshold - 1, CpuThreshold, CpuThreshold + 1}

\* The task types callers pass.
TaskTypes == {"Thought", "Action", "thought"}

\* TriageEngine.is_system_struggling
IsSystemStruggling(c, m) == c > CpuThreshold \/ m > MemThreshold

\* A direct call of select_provider
SelectProviderCall ==
    /\ tpc = "call"
    /\ selected' = SelectProvider(triage_task, IsSystemStruggling(cpu_load, mem_load),
                                  local_provider, external_provider)
    /\ tpc' = "selected"
    /\ UNCHANGED <<triage_task, cpu_load, mem_load, backend_calls, triage_response>>
    /\ UNCHANGED exceptTriage

\* TriageEngine.generate: the provider is selected and, when there is one,
\* its generate is called and its result (or exception) is the caller's.
TriageGenerate ==
    /\ tpc = "call"
    /\ LET load == IsSystemStruggling(cpu_load, mem_load)
       IN  /\ selected' = SelectProvider(triage_task, load, local_provider,
                                         external_provider)
           /\ \E kind \in TriageOutcomes(triage_task, load, local_provider,
                                         external_provider) :
                /\ backend_calls' = IF kind = "no_provider" THEN backend_calls
                                    ELSE Append(backend_calls, selected')
                /\ triage_response' = IF kind = "raise" THEN triage_response ELSE kind
                /\ tpc' = IF kind = "raise" THEN "raised" ELSE "done"
    /\ UNCHANGED <<triage_task, cpu_load, mem_load>>
    /\ UNCHANGED exceptTriage

\* The next call on the same engine, under the load of that moment
TriageNextCall ==
    /\ tpc \in {"selected", "done", "raised"}
    /\ triage_task' \in TaskTypes
    /\ cpu_load' \in Loads
    /\ mem_load' \in Loads
    /\ tpc' = "call"
    /\ selected' = "none"
    /\ backend_calls' = << >>
    /\ triage_response' = "none"
    /\ UNCHANGED exceptTriage

\* TriageEngine.__init__ (a provider that cannot be built is None) and the
\* first call
InitTriage ==
    /\ BossIdle
    /\ mcp_manager = FALSE
    /\ RouterIdle
    /\ IntentIdle
    /\ RestIdle
    /\ memory = FALSE
    /\ scheduler = FALSE
    /\ local_provider \in {"none", "local"}
    /\ external_provider \in {"none", "openai"}
    /\ rpc = "idle"
    /\ turn = 0
    /\ directive = NoDirective
    /\ current_context = << >>
    /\ final_msg = ""
    /\ model_log = << >>
    /\ triage_task \in TaskTypes
    /\ cpu_load \in Loads
    /\ mem_load \in Loads
    /\ tpc = "call"
    /\ selected = "none"
    /\ backend_calls = << >>
    /\ triage_response = "none"

NextTriage ==
    \/ SelectProviderCall
    \/ TriageGenerate
    \/ TriageNextCall

SpecTriage == InitTriage /\ [][NextTriage]_vars

\* Either gateway to the models, each on its own: a ModelManager or a
\* TriageEngine serving calls.
InitGateways == InitRouter \/ InitTriage

NextGateways == NextRouter \/ NextTriage

SpecGateways == InitGateways /\ [][NextGateways]_vars

\* ------------------------------------------- the fast paths of a message
\* What triage.get_intent may hand back: the intents either front-end
\* compares its result with, and None.
Intents ==
    {"greeting", "track_iss", "get_weather", "research", "deep_research",
     "track_hubble", "none"}

\* The handler a front-end gives the message to. process_message tests the
\* greeting first and ends in the reasoning loop; CLIGateway.start knows
\* three intents and goes on to its reasoning loop for every other one.
Handler(f, i, h) ==
    IF f = "orchestrator"
    THEN IF i = "greeting" \/ h THEN "greeting"
         ELSE IF i = "track_iss" THEN "track_iss"
         ELSE IF i = "get_weather" THEN "get_weather"
         ELSE IF i \in {"research", "deep_research"} THEN "research"
         ELSE "loop"
    ELSE IF i = "track_iss" THEN "track_iss"
         ELSE IF i = "track_hubble" THEN "track_hubble"
         ELSE IF i = "get_weather" THEN "get_weather"
         ELSE "loop"

\* The first tool of a handler and the one that follows when the first
\* one's text holds coordinates.
FirstTool(h) == IF h = "track_iss" THEN "get_iss_location" ELSE "geocode"
SecondTool(h) == IF h = "track_iss" THEN "reverse_geocode" ELSE "get_current_weather"

ToolCall(tool, outcome) == [tool |-> tool, outcome |-> outcome]

\* An exception in a handler: it leaves process_message, while
\* CLIGateway.start catches it, prints "System Error: ..." and reads the
\* next message.
AfterException(f) == IF f = "orchestrator" THEN "raised" ELSE "replied"
ExceptionReply(f) == IF f = "orchestrator" THEN "none" ELSE "system_error"

\* What follows a first tool whose text holds no coordinates: the ISS
\* handlers answer with the text; the weather handler of process_message
\* answers "Could not geocode the city for weather.", the one of
\* CLIGateway.start leaves fast_path_handled unset.
AfterNoCoordinates(f, h) ==
    IF h = "get_weather" /\ f = "cli" THEN "fall_through" ELSE "replied"
NoCoordinatesReply(f, h) ==
    IF h = "track_iss" THEN "tool_text"
    ELSE IF f = "orchestrator" THEN "could_not_geocode"
    ELSE "none"

\* The handlers that use no tool
AnswerDirectly ==
    /\ ipc = "triage"
    /\ Handler(frontend, intent, hello) \in {"greeting", "track_hubble"}
    /\ fast_reply' = Handler(frontend, intent, hello)
    /\ ipc' = "replied"
    /\ UNCHANGED <<frontend, intent, hello, tool_calls>>
    /\ UNCHANGED reasonVars
    /\ UNCHANGED exceptIntent

\* The first smart_call_tool of the ISS and weather handlers; without an
\* MCP manager the call is an attribute access on None.
CallFirstTool ==
    /\ ipc = "triage"
    /\ Handler(frontend, intent, hello) \in {"track_iss", "get_weather"}
    /\ LET h == Handler(frontend, intent, hello)
       IN  IF ~mcp_manager
           THEN /\ ipc' = AfterException(frontend)
                /\ fast_reply' = ExceptionReply(frontend)
                /\ tool_calls' = tool_calls
           ELSE \E outcome \in {"coordinates", "text", "raise"} :
                /\ tool_calls' = Append(tool_calls, ToolCall(FirstTool(h), outcome))
                /\ IF outcome = "coordinates"
                   THEN ipc' = "second_tool" /\ fast_reply' = fast_reply
                   ELSE IF outcome = "raise"
                   THEN /\ ipc' = AfterException(frontend)
                        /\ fast_reply' = ExceptionReply(frontend)
                   ELSE /\ ipc' = AfterNoCoordinates(frontend, h)
                        /\ fast_reply' = NoCoordinatesReply(frontend, h)
    /\ UNCHANGED <<frontend, intent, hello>>
    /\ UNCHANGED reasonVars
    /\ UNCHANGED exceptIntent

\* reverse_geocode, or get_current_weather, at the coordinates found
CallSecondTool ==
    /\ ipc = "second_tool"
    /\ \E outcome \in {"text", "raise"} :
        /\ tool_calls' = Append(tool_calls,
               ToolCall(SecondTool(Handler(frontend, intent, hello)), outcome))
        /\ ipc' = IF outcome = "raise" THEN AfterException(frontend) ELSE "replied"
        /\ fast_reply' = IF outcome = "raise" THEN ExceptionReply(frontend)
                    ELSE Handler(frontend, intent, hello)
    /\ UNCHANGED <<frontend, intent, hello>>
    /\ UNCHANGED reasonVars
    /\ UNCHANGED exceptIntent

\* The research workflow of process_message, by what it hands back.
AnswerResearch ==
    /\ ipc = "triage"
    /\ Handler(frontend, intent, hello) = "research"
    /\ \E r \in {"could_not_plan", "validation_failed", "summary_and_report", "raise"} :
        /\ ipc' = IF r = "raise" THEN "raised" ELSE "replied"
        /\ fast_reply' = IF r = "raise" THEN "none" ELSE r
    /\ UNCHANGED <<frontend, intent, hello, tool_calls>>
    /\ UNCHANGED reasonVars
    /\ UNCHANGED exceptIntent

\* The message reaches the reasoning loop: no handler took it, or the
\* handler left it unanswered.
EnterLoop ==
    /\ \/ ipc = "triage" /\ Handler(frontend, intent, hello) = "loop"
       \/ ipc = "fall_through"
    /\ ipc' = "loop"
    /\ rpc' = "generate"
    /\ current_context' = <<"User">>
    /\ UNCHANGED <<frontend, intent, hello, tool_calls, fast_reply>>
    /\ UNCHANGED <<memory, scheduler, local_provider, external_provider, turn,
                   directive, final_msg, model_log>>
    /\ UNCHANGED exceptIntent

\* A message arrives at a front-end. A bare greeting word has no word of
\* the classifier's vocabulary, so it is classified as a greeting or not
\* at all.
InitIntent ==
    /\ BossIdle
    /\ mcp_manager \in BOOLEAN
    /\ RouterIdle
    /\ TriageIdle
    /\ RestIdle
    /\ memory \in BOOLEAN
    /\ scheduler = FALSE
    /\ local_provider = "local"
    /\ external_provider = "none"
    /\ rpc = "idle"
    /\ turn = 0
    /\ directive = NoDirective
    /\ current_context = << >>
    /\ final_msg = ""
    /\ model_log = << >>
    /\ frontend \in {"orchestrator", "cli"}
    /\ intent \in Intents
    /\ hello \in (IF intent \in {"greeting", "none"} THEN BOOLEAN ELSE {FALSE})
    /\ ipc = "triage"
    /\ tool_calls = << >>
    /\ fast_reply = "none"

NextIntent ==
    \/ AnswerDirectly
    \/ CallFirstTool
    \/ CallSecondTool
    \/ AnswerResearch
    \/ EnterLoop
    \/ Generate
    \/ ExecuteAction
    \/ Reflect
    \/ ReturnFinalMsg

SpecIntent == InitIntent /\ [][NextIntent]_vars

\* ---------------------------------------------------------- SessionManager
\* The bound on the clock: the ticks of time.time() followed.
MaxTime == 5

\* The lease durations, in ticks (1800 seconds by default).
LeaseDurations == {1, 2}

Users == {"alice", "bob"}

\* A user for whom self.leases has no entry
NoLease == -1

\* Never granted a lease
Never == -1

\* self.leases.get(user_id, 0)
Expiry(ls, u) == IF ls[u] = NoLease THEN 0 ELSE ls[u]

\* SessionManager.is_authorized: time.time() < expiry
IsAuthorizedInclusive(ls, t, u) == t <= Expiry(ls, u)

IsAuthorized(ls, t, u) == t < Expiry(ls, u)

SessionCall(op, u, result) == [op |-> op, user |-> u, result |-> result]

\* SessionManager.grant_lease
GrantLease ==
    /\ \E u \in Users :
        /\ leases' = [leases EXCEPT ![u] = now + lease_duration]
        /\ granted_at' = [granted_at EXCEPT ![u] = now]
        /\ last_call' = SessionCall("grant_lease", u, TRUE)
    /\ UNCHANGED <<lease_duration, now>>
    /\ UNCHANGED exceptSession

\* SessionManager.is_authorized
IsAuthorizedCall ==
    /\ \E u \in Users :
        last_call' = SessionCall("is_authorized", u, IsAuthorized(leases, now, u))
    /\ UNCHANGED <<lease_duration, leases, now, granted_at>>
    /\ UNCHANGED exceptSession

\* Time passes.
Tick ==
    /\ now < MaxTime
    /\ now' = now + 1
    /\ last_call' = SessionCall("none", "none", FALSE)
    /\ UNCHANGED <<lease_duration, leases, granted_at>>
    /\ UNCHANGED exceptSession

\* SessionManager.__init__, at a time after the epoch
InitSession ==
    /\ BossIdle
    /\ mcp_manager = FALSE
    /\ ReasonIdle
    /\ RouterIdle
    /\ TriageIdle
    /\ IntentIdle
    /\ lease_duration \in LeaseDurations
    /\ leases = [u \in Users |-> NoLease]
    /\ now = 1
    /\ granted_at = [u \in Users |-> Never]
    /\ last_call = SessionCall("none", "none", FALSE)
    /\ history = << >>
    /\ rendered = << >>
    /\ turn_no = 0
    /\ bosses = << >>
    /\ persist_log = << >>
    /\ ExtraIdle

NextSession ==
    \/ GrantLease
    \/ IsAuthorizedCall
    \/ Tick

SpecSession == InitSession /\ [][NextSession]_vars

\* ------------------------------------ Boss instances sharing the trust file
\* The Boss objects followed: every research request constructs its own,
\* and requests that arrive while another is suspended overlap with it.
Instances == {"a", "b", "c"}

\* The links an instance may be prompted for.
InstanceLinks == {"news_a", "evil_pdf", "bare"}

Unborn == [stage |-> "unborn", session_approved |-> FALSE, trusted_domains |-> << >>,
           known |-> {}]

\* A write of the trust list, as logged
Persisted(i, domain, list) == [by |-> i, domain |-> domain, list |-> list]

\* The domains added by trust-and-persist so far
Added == {persist_log[k].domain : k \in 1..Len(persist_log)}

\* Boss.__init__: the flag is reset and the list read from the file.
Construct(i) ==
    /\ bosses[i].stage = "unborn"
    /\ bosses' = [bosses EXCEPT ![i] =
                    [stage |-> "running",
                     session_approved |-> FALSE,
                     trusted_domains |-> LoadTrustedDomains(trusted_file),
                     known |-> Added]]
    /\ UNCHANGED <<trusted_file, persist_log>>

\* The answer 'all' to the batch prompt of a search step
ApproveAll(i) ==
    /\ bosses[i].stage = "running"
    /\ ~bosses[i].session_approved
    /\ bosses' = [bosses EXCEPT ![i].session_approved = TRUE]
    /\ UNCHANGED <<trusted_file, persist_log>>

\* The answer 'trust' to the prompt for a link: the instance appends the
\* netloc to its own list and rewrites the file with that list.
TrustLink(i) ==
    /\ bosses[i].stage = "running"
    /\ ~bosses[i].session_approved
    /\ \E link \in InstanceLinks :
        /\ ~IsTrusted(link, bosses[i].trusted_domains)
        /\ LET domain == Netloc(Url(link))
               trusted == TrustDomain(bosses[i].trusted_domains, trusted_file, domain)
           IN  /\ bosses' = [bosses EXCEPT ![i].trusted_domains = trusted.list]
               /\ trusted_file' = trusted.file
               /\ persist_log' = IF trusted.file # trusted_file
                                 THEN Append(persist_log,
                                             Persisted(i, domain, trusted.list))
                                 ELSE persist_log

\* execute_plan returns and the request ends.
Finish(i) ==
    /\ bosses[i].stage = "running"
    /\ bosses' = [bosses EXCEPT ![i].stage = "finished"]
    /\ UNCHANGED <<trusted_file, persist_log>>

InitInstances ==
    /\ entry = "orchestrator"
    /\ mcp_manager = TRUE
    /\ pc = "idle"
    /\ plan = << >>
    /\ is_valid = FALSE
    /\ phases = << >>
    /\ exec_result = "none"
    /\ response = "none"
    /\ cleaned_up = FALSE
    /\ session_approved = FALSE
    /\ trusted_file \in InitialFiles
    /\ trusted_domains = DefaultTrusted
    /\ step_idx = 0
    /\ items = << >>
    /\ item_idx = 0
    /\ results = << >>
    /\ parsing_tasks = << >>
    /\ finished = {}
    /\ finish_order = << >>
    /\ prompts = << >>
    /\ urls_met = {}
    /\ ReasonIdle
    /\ RouterIdle
    /\ TriageIdle
    /\ IntentIdle
    /\ lease_duration = 0
    /\ leases = << >>
    /\ now = 0
    /\ granted_at = << >>
    /\ last_call = "none"
    /\ history = << >>
    /\ rendered = << >>
    /\ turn_no = 0
    /\ bosses = [i \in Instances |-> Unborn]
    /\ persist_log = << >>
    /\ ExtraIdle

NextInstances ==
    /\ \E i \in Instances :
        \/ Construct(i)
        \/ ApproveAll(i)
        \/ TrustLink(i)
        \/ Finish(i)
    /\ UNCHANGED <<pc, wfVars, session_approved, trusted_domains, loopVars, outVars,
                   prompts, urls_met>>
    /\ UNCHANGED exceptInstances

SpecInstances == InitInstances /\ [][NextInstances]_vars

\* ----------------------------------- the conversation history of a sender
\* The messages of one sender followed.
MaxTurns == 6

\* if len(self.user_histories[sender]) > 10: ... [-10:]
HistoryKept == 10

\* chat_history = "\n".join(history[-10:])
LoopWindow == 10

\* context = "\n".join(history[-5:])
ResearchWindow == 5

\* Python: s[-n:]
Last(s, n) == IF Len(s) <= n THEN s ELSE SubSeq(s, Len(s) - n + 1, Len(s))

\* The two entries a handled message adds.
Exchange(t) == <<[speaker |-> "User", turn |-> t], [speaker |-> "Assistant", turn |-> t]>>

\* What EmailGateway.handle_email_async keeps of the history after the append.
KeepAll(h) == h

KeepRecent(h) == IF Len(h) > HistoryKept THEN Last(h, HistoryKept) ELSE h

\* The history entries process_message joins into its prompt: the research
\* workflow and the reasoning loop each take a window, the other fast
\* paths none.
Rendered(path, h) ==
    IF path = "loop" THEN Last(h, LoopWindow)
    ELSE IF path = "research" THEN Last(h, ResearchWindow)
    ELSE << >>

\* EmailGateway.handle_email_async: process_message reads the history; when
\* it and send_email return, the exchange is appended and the history cut.
EmailMessage ==
    /\ frontend = "email"
    /\ turn_no < MaxTurns
    /\ turn_no' = turn_no + 1
    /\ \E path \in {"loop", "research", "fast"}, outcome \in {"reply", "raise"} :
        /\ rendered' = Rendered(path, history)
        /\ history' = IF outcome = "reply"
                      THEN KeepRecent(history \o Exchange(turn_no'))
                      ELSE history
    /\ UNCHANGED exceptHistory

\* CLIGateway.start: the loop reads the last entries; the exchange is
\* appended when there is a final message (and by the fast paths that
\* answered).
CliMessage ==
    /\ frontend = "cli"
    /\ turn_no < MaxTurns
    /\ turn_no' = turn_no + 1
    /\ \E path \in {"loop", "fast"}, outcome \in {"reply", "no_reply", "raise"} :
        /\ rendered' = Rendered(path, history)
        /\ history' = IF outcome = "reply"
                      THEN history \o Exchange(turn_no')
                      ELSE history
    /\ UNCHANGED exceptHistory

\* The 'clear' command of the CLI
CliClear ==
    /\ frontend = "cli"
    /\ history # << >>
    /\ history' = << >>
    /\ UNCHANGED <<rendered, turn_no>>
    /\ UNCHANGED exceptHistory

\* A front-end before the first message of the sender
InitHistory ==
    /\ BossIdle
    /\ mcp_manager = FALSE
    /\ ReasonIdle
    /\ RouterIdle
    /\ TriageIdle
    /\ frontend \in {"email", "cli"}
    /\ intent = "none"
    /\ hello = FALSE
    /\ ipc = "idle"
    /\ tool_calls = << >>
    /\ fast_reply = "none"
    /\ lease_duration = 0
    /\ leases = << >>
    /\ now = 0
    /\ granted_at = << >>
    /\ last_call = "none"
    /\ history = << >>
    /\ rendered = << >>
    /\ turn_no = 0
    /\ bosses = << >>
    /\ persist_log = << >>
    /\ ExtraIdle

NextHistory ==
    \/ EmailMessage
    \/ CliMessage
    \/ CliClear

SpecHistory == InitHistory /\ [][NextHistory]_vars

\* ------------------------------------------- batches of several search links
\* Plans of searches whose batch holds two links of one untrusted host and
\* a link that is approved without a prompt, alone or followed by a second
\* step.
BatchSearch == Step("ddg", "search", "query", "qc")

BatchPlans ==
    { <<BatchSearch>>,
      <<BatchSearch, BatchSearch>>,
      <<BatchSearch, Step("ddg", "search", "query", "qa")>>,
      <<BatchSearch, Step("docling", "parse_url", "url", "news_a")>> }

PlanTaskBatch ==
    /\ pc = "planning"
    /\ \E p \in BatchPlans : plan' = p
    /\ phases' = Append(phases, "planning")
    /\ pc' = "validating"
    /\ UNCHANGED <<entry, mcp_manager, is_valid, exec_result, response, cleaned_up,
                   trustVars, loopVars, outVars, prompts, urls_met>>
    /\ UNCHANGED otherVars

InitBatch ==
    /\ Init
    /\ entry = "orchestrator"
    /\ ~mcp_manager

NextBatch ==
    \/ PlanTaskBatch
    \/ ValidatePlan
    \/ StartExecute
    \/ StepDdg
    \/ AnswerBatch
    \/ LinkLoop
    \/ AnswerLink
    \/ StepDocling
    \/ TaskFinish
    \/ StepsDone
    \/ GatherReturn
    \/ Synthesize

SpecBatch == InitBatch /\ [][NextBatch]_vars

\* ------------------------------------- the outcome of a background parse
\* What DocumentConverter.convert and export_to_markdown may do.
ConvertOutcomes == {"ok", "raise"}

\* DoclingWorker.execute (parse_url and parse_file call it with the link or
\* the path as source): the markdown, or "Error parsing document: ..." when
\* the conversion raises; "raise" stands for an exception that leaves it.
DoclingExecuteUncaught(source, convert) ==
    IF source = "" THEN "Error: No source provided for document parsing."
    ELSE IF convert = "raise" THEN "raise"
    ELSE "markdown"

DoclingExecute(source, convert) ==
    IF source = "" THEN "Error: No source provided for document parsing."
    ELSE IF convert = "raise" THEN "Error parsing document"
    ELSE "markdown"

\* The entry of parse_log for task i.
Parsed(i, convert) ==
    [task |-> i, convert |-> convert,
     page_md |-> DoclingExecute(parsing_tasks[i].link, convert)]

\* f"Source ({title}) [Link: {link}]:\n{page_md}", what task i returns
BackgroundResult(tasks, log, i) ==
    [type |-> "parsed", step |-> tasks[i].step, task |-> i, link |-> tasks[i].link,
     page_md |-> (CHOOSE e \in log : e.task = i).page_md]

\* _parse_background / _parse_file_bg: the executor thread ends the parse
\* and the event loop completes the task with what docling returned, or
\* with the exception that left it.
ParseFinish ==
    /\ Suspended
    /\ \E i \in 1..Len(parsing_tasks) : \E convert \in ConvertOutcomes :
        /\ i \notin finished
        /\ finished' = finished \cup {i}
        /\ parse_log' = parse_log \cup {Parsed(i, convert)}
    /\ UNCHANGED <<pc, wfVars, trustVars, loopVars, results, parsing_tasks,
                   finish_order, prompts, urls_met>>
    /\ UNCHANGED <<reasonVars, routerVars, triageVars, intentVars, sessionVars,
                   historyVars, instanceVars, extractVars, telegramVars, schedVars>>

\* background_results = await asyncio.gather(*parsing_tasks), without
\* return_exceptions: the first exception of a task leaves the gather, and
\* execute_plan, at once; else it returns when every task is done.
GatherParsed ==
    /\ pc = "gather"
    /\ IF \E e \in parse_log : e.page_md = "raise"
       THEN /\ pc' = "raised"
            /\ UNCHANGED <<results, exec_result>>
       ELSE /\ GatherReady(parsing_tasks, finished)
            /\ results' = results \o [i \in 1..Len(parsing_tasks) |->
                                        BackgroundResult(parsing_tasks, parse_log, i)]
            /\ pc' = "synthesizing"
            /\ exec_result' = "list"
    /\ CleanedUp
    /\ UNCHANGED <<entry, mcp_manager, plan, is_valid, phases, response,
                   trustVars, loopVars, parsing_tasks, finished, finish_order, prompts,
                   urls_met>>
    /\ UNCHANGED otherVars

\* The plans whose steps dispatch background tasks: a search, the parse of
\* a link and the parse of a file.
ParseStepKinds ==
    { Step("ddg",     "search",     "query",     "qa"),
      Step("docling", "parse_url",  "url",       "news_a"),
      Step("docling", "parse_file", "file_path", "paper_file") }

PlanTaskParse ==
    /\ pc = "planning"
    /\ \E p \in PlansOf(ParseStepKinds, MaxPlanLen) : plan' = p
    /\ phases' = Append(phases, "planning")
    /\ pc' = "validating"
    /\ UNCHANGED <<entry, mcp_manager, is_valid, exec_result, response, cleaned_up,
                   trustVars, loopVars, outVars, prompts, urls_met>>
    /\ UNCHANGED otherVars

InitParse ==
    /\ Init
    /\ entry = "orchestrator"
    /\ ~mcp_manager
    /\ trusted_file = NoFile

NextParse ==
    \/ PlanTaskParse
    \/ ValidatePlan
    \/ StartExecute
    \/ StepDdg
    \/ AnswerBatch
    \/ LinkLoop
    \/ AnswerLink
    \/ StepDocling
    \/ ParseFinish
    \/ StepsDone
    \/ GatherParsed
    \/ Synthesize

SpecParse == InitParse /\ [][NextParse]_vars

\* ------------------------------------- malformed entries among valid steps
\* The loose entries, and a search whose args are a list.
MalformedStepKinds ==
    LooseStepKinds \cup {Entry("dict", "ddg", "search", "list", "none", "qa")}

PlanTaskMalformed ==
    /\ pc = "planning"
    /\ \E p \in PlansOf(MalformedStepKinds, MaxPlanLen) : plan' = p
    /\ phases' = Append(phases, "planning")
    /\ pc' = "validating"
    /\ UNCHANGED <<entry, mcp_manager, is_valid, exec_result, response, cleaned_up,
                   trustVars, loopVars, outVars, prompts, urls_met>>
    /\ UNCHANGED otherVars

InitMalformed ==
    /\ Init
    /\ entry = "orchestrator"
    /\ ~mcp_manager
    /\ trusted_file = NoFile

NextMalformed ==
    \/ PlanTaskMalformed
    \/ ValidatePlan
    \/ StartExecute
    \/ StepNotMapping
    \/ StepDdg
    \/ AnswerBatch
    \/ LinkLoop
    \/ AnswerLink
    \/ StepDocling
    \/ StepSkip
    \/ TaskFinish
    \/ StepsDone
    \/ GatherReturn
    \/ Synthesize

SpecMalformed == InitMalformed /\ [][NextMalformed]_vars

\* ------------------------------------------- Boss.plan_task, the extraction
\* Longest text the planner writes after its tags, in characters.
MaxRawLen == 5

\* The characters of such a text: the brackets, a JSON number's digit and a
\* letter of prose.
RawChars == {"[", "]", "1", "t"}

Bodies == UNION {[1..n -> RawChars] : n \in 0..MaxRawLen}

\* What the planner model writes: the text alone, or the text as the
\* Content of a response whose Thought holds a bracketed remark.
RawOutputs ==
    Bodies \cup {ThoughtTag \o <<"[", "t", "]">> \o ContentTag \o b : b \in Bodies}

\* json.loads accepts the text: a number, or an array of at most one value
\* (the texts hold no comma).
RECURSIVE IsJson(_)
IsJson(s) ==
    IF s = << >> THEN FALSE
    ELSE IF \A i \in 1..Len(s) : s[i] = "1" THEN TRUE
    ELSE /\ Len(s) >= 2
         /\ s[1] = "[" /\ s[Len(s)] = "]"
         /\ (Len(s) = 2 \/ IsJson(SubSeq(s, 2, Len(s) - 1)))

\* Index of the last c in s, 0 when there is none.
LastOf(s, c) ==
    IF \E i \in 1..Len(s) : s[i] = c
    THEN CHOOSE i \in 1..Len(s) : s[i] = c /\ \A j \in (i + 1)..Len(s) : s[j] # c
    ELSE 0

\* re.search(r'\[.*\]', content, re.DOTALL).group(0): from the first "["
\* that has a "]" after it to the last "]", the star being greedy; the
\* empty text when there is no match.
BracketMatch(s) ==
    LET i == FirstOf(s, {"["})
        j == LastOf(s, "]")
    IN  IF i < j THEN SubSeq(s, i, j) ELSE << >>

\* The empty plan, as the text of the array.
EmptyPlan == <<"[", "]">>

\* plan_task from the response on: the match is loaded, and both no match
\* and an exception of json.loads give the empty plan.
ExtractPlan(response_content) ==
    LET json_match == BracketMatch(response_content)
    IN  IF json_match # << >> /\ IsJson(json_match) THEN json_match ELSE EmptyPlan

NotExtracted == [returned |-> FALSE, plan |-> << >>]

\* plan = boss.plan_task(goal): _parse_response, then the extraction
PlanTaskExtract ==
    /\ ~extracted.returned
    /\ extracted' = [returned |-> TRUE, plan |-> ExtractPlan(ParseContent(raw_output))]
    /\ UNCHANGED raw_output
    /\ UNCHANGED <<bossVars, reasonVars, routerVars, triageVars, intentVars, sessionVars,
                   historyVars, instanceVars, parseVars, telegramVars, schedVars>>

InitExtract ==
    /\ BossIdle
    /\ mcp_manager = FALSE
    /\ ReasonIdle
    /\ RouterIdle
    /\ TriageIdle
    /\ IntentIdle
    /\ lease_duration = 0
    /\ leases = << >>
    /\ now = 0
    /\ granted_at = << >>
    /\ last_call = "none"
    /\ history = << >>
    /\ rendered = << >>
    /\ turn_no = 0
    /\ bosses = << >>
    /\ persist_log = << >>
    /\ parse_log = {}
    /\ raw_output \in RawOutputs
    /\ extracted = NotExtracted
    /\ tg_last = NoMessage
    /\ task_rows = << >>
    /\ runner = RunnerOff
    /\ executed = << >>

NextExtract == PlanTaskExtract

SpecExtract == InitExtract /\ [][NextExtract]_vars

\* ------------------------------------------- prompts that raise in an mcp step
\* input() raises (EOFError on a closed stdin) at the include prompt or at
\* a step-into prompt: both stand in the try block of the mcp branch, whose
\* except appends "Error (action): ..." and lets the loop go on.
McpPromptRaisesUncaught ==
    /\ pc \in {"prompt_include", "prompt_stepinto"}
    /\ prompts' = Answered("raise")
    /\ pc' = "raised"
    /\ CleanedUp
    /\ UNCHANGED <<entry, mcp_manager, plan, is_valid, phases, exec_result, response,
                   trustVars, loopVars, outVars, urls_met>>
    /\ UNCHANGED otherVars

McpPromptRaises ==
    /\ pc \in {"prompt_include", "prompt_stepinto"}
    /\ prompts' = Answered("raise")
    /\ results' = Append(results, StepResult("error"))
    /\ NextStep
    /\ UNCHANGED <<wfVars, trustVars, parsing_tasks, finished, finish_order, urls_met>>
    /\ UNCHANGED otherVars

McpStepKinds ==
    { Step("mcp",     "search_arxiv", "none", ""),
      Step("mcp",     "list_feeds",   "none", ""),
      Step("docling", "parse_url",    "url",  "news_a") }

PlanTaskMcp ==
    /\ pc = "planning"
    /\ \E p \in PlansOf(McpStepKinds, MaxPlanLen) : plan' = p
    /\ phases' = Append(phases, "planning")
    /\ pc' = "validating"
    /\ UNCHANGED <<entry, mcp_manager, is_valid, exec_result, response, cleaned_up,
                   trustVars, loopVars, outVars, prompts, urls_met>>
    /\ UNCHANGED otherVars

InitMcp ==
    /\ Init
    /\ entry = "orchestrator"
    /\ mcp_manager
    /\ trusted_file = NoFile

NextMcp ==
    \/ PlanTaskMcp
    \/ ValidatePlan
    \/ StartExecute
    \/ StepMcp
    \/ ToolReturn
    \/ AnswerInclude
    \/ IncludeResults
    \/ StepInto
    \/ AnswerStepInto
    \/ McpPromptRaises
    \/ StepDocling
    \/ TaskFinish
    \/ StepsDone
    \/ GatherReturn
    \/ Synthesize

SpecMcp == InitMcp /\ [][NextMcp]_vars

\* --------------------------------------- TelegramGateway.handle_message
\* The texts of the messages followed.
ArxivWord == <<"a", "r", "x", "i", "v">>

TelegramTexts ==
    { <<"O", "K">>, <<"o", "k">>, <<"Y", "e", "s">>, <<"y">>, <<"o", "k", "a", "y">>, <<"O", "K", " ">>,
      <<"A", "r", "x", "i", "v", " ", "o", "k">>, <<"h", "i">> }

\* if text.upper() in ["OK", "YES", "Y"]
GrantWords == { <<"O", "K">>, <<"Y", "E", "S">>, <<"Y">> }

\* The branch of handle_message a message takes: the grant of a lease, the
\* approval request of a user who is not authorized, the plugin flow of a
\* text with "arxiv" in it, the triage engine for the rest.
RouteNoLeaseCheck(text, authorized) ==
    IF Upper(text) \in GrantWords THEN "grant"
    ELSE IF Contains(Lower(text), ArxivWord) THEN "plugin"
    ELSE "triage"

Route(text, authorized) ==
    IF Upper(text) \in GrantWords THEN "grant"
    ELSE IF ~authorized THEN "approval_request"
    ELSE IF Contains(Lower(text), ArxivWord) THEN "plugin"
    ELSE "triage"

\* The reply_text calls of a branch. main.py sets the auditor and memory
\* attributes of the gateway it builds, a gateway built elsewhere has
\* none; the calls of the plugin flow and of the triage engine may raise,
\* which ends the replies where it happens.
RepliesOf(route, auditor, mem, ok) ==
    CASE route = "grant" -> <<"lease_granted">>
      [] route = "approval_request" -> <<"approval_request">>
      [] route = "plugin" ->
            <<"routing">>
            \o (IF auditor
                THEN IF ok THEN <<"auditing", "label">> ELSE <<"auditing">>
                ELSE << >>)
            \o (IF ok \/ ~auditor
                THEN <<"executing">>
                     \o (IF mem THEN <<"saved">> ELSE << >>) \o <<"done">>
                ELSE << >>)
      [] route = "triage" -> IF ok THEN <<"response">> ELSE << >>

\* TelegramGateway.handle_message, with the SessionManager calls it makes
HandleMessage ==
    /\ \E u \in Users, text \in TelegramTexts, auditor, mem, ok \in BOOLEAN :
        LET authorized == IsAuthorized(leases, now, u)
            route == Route(text, authorized)
        IN  /\ tg_last' = [user |-> u, text |-> text, route |-> route,
                           replies |-> RepliesOf(route, auditor, mem, ok),
                           at |-> now]
            /\ IF route = "grant"
               THEN /\ leases' = [leases EXCEPT ![u] = now + lease_duration]
                    /\ granted_at' = [granted_at EXCEPT ![u] = now]
                    /\ last_call' = SessionCall("grant_lease", u, TRUE)
               ELSE /\ last_call' = SessionCall("is_authorized", u, authorized)
                    /\ UNCHANGED <<leases, granted_at>>
    /\ UNCHANGED <<lease_duration, now>>
    /\ UNCHANGED <<bossVars, reasonVars, routerVars, triageVars, intentVars,
                   historyVars, instanceVars, parseVars, extractVars, schedVars>>

\* main.py: TelegramGateway(token, session, triage) on a new SessionManager
InitTelegram == InitSession

NextTelegram ==
    \/ HandleMessage
    \/ Tick

SpecTelegram == InitTelegram /\ [][NextTelegram]_vars

\* ------------------------------------------------------------ TaskRunner
\* The bounds on the tasks added and on the polls that fail.
MaxTasks == 2

MaxPollErrors == 2

\* The delays add_task is called with, in ticks.
Delays == {0, 1, 2}

\* Python: the order of the status values of a row. A row is written as
\* PENDING by the INSERT (the default of the column).
Rank(status) ==
    CASE status = "PENDING" -> 0
      [] status = "RUNNING" -> 1
      [] status = "COMPLETED" -> 2

\* The runner between two polls: time.sleep(5)
RunnerAsleep(errors) ==
    [rpos |-> "sleep", poll_now |-> 0, batch |-> << >>, idx |-> 0,
     stage |-> "none", errors |-> errors]

\* SELECT id ... WHERE status = 'PENDING' AND scheduled_at <= ?, as the
\* ids of the rows in the order of the table
RECURSIVE Due(_, _, _)
Due(rows, t, n) ==
    IF n = 0 THEN << >>
    ELSE Due(rows, t, n - 1)
         \o (IF rows[n].status = "PENDING" /\ rows[n].scheduled_at <= t
             THEN <<n>> ELSE << >>)

\* The connection of the poll has written a row and holds the write lock
\* of the database until its transaction ends.
HoldsWriteLock ==
    \/ runner.rpos = "commit"
    \/ runner.rpos = "batch" /\ ~(runner.idx = 1 /\ runner.stage = "mark_running")

\* The status of a row as the connection of the runner reads it: the
\* committed one, or the one its open transaction has written.
TxnStatus(id) ==
    IF runner.rpos \in {"batch", "commit"}
       /\ \E k \in 1..Len(runner.batch) : runner.batch[k] = id
    THEN LET k == CHOOSE k \in 1..Len(runner.batch) : runner.batch[k] = id
         IN  IF k < runner.idx THEN "COMPLETED"
             ELSE IF k = runner.idx /\ runner.stage # "mark_running" THEN "RUNNING"
             ELSE "PENDING"
    ELSE task_rows[id].status

\* TaskRunner.add_task. Its INSERT waits while the poll holds the write
\* lock.
AddTask ==
    /\ Len(task_rows) < MaxTasks
    /\ ~HoldsWriteLock
    /\ \E delay \in Delays :
        task_rows' = Append(task_rows,
                            [scheduled_at |-> now + delay, status |-> "PENDING"])
    /\ executed' = Append(executed, [times |-> << >>, completions |-> 0])
    /\ UNCHANGED runner
    /\ UNCHANGED <<bossVars, reasonVars, routerVars, triageVars, intentVars,
                   sessionVars, historyVars, instanceVars, parseVars,
                   extractVars, telegramVars>>

\* TaskRunner.start_background: the thread enters run()
StartBackground ==
    /\ runner.rpos = "off"
    /\ runner' = RunnerAsleep(0)
    /\ UNCHANGED <<task_rows, executed>>
    /\ UNCHANGED <<bossVars, reasonVars, routerVars, triageVars, intentVars,
                   sessionVars, historyVars, instanceVars, parseVars,
                   extractVars, telegramVars>>

\* now = time.time() and the SELECT of a poll. A poll that finds no row
\* commits nothing and sleeps again.
PollSelect ==
    /\ runner.rpos = "sleep"
    /\ LET due == Due(task_rows, now, Len(task_rows))
       IN  runner' = IF due = << >>
                     THEN runner
                     ELSE [runner EXCEPT !.rpos = "batch", !.poll_now = now,
                                         !.batch = due, !.idx = 1,
                                         !.stage = "mark_running"]
    /\ UNCHANGED <<task_rows, executed>>
    /\ UNCHANGED <<bossVars, reasonVars, routerVars, triageVars, intentVars,
                   sessionVars, historyVars, instanceVars, parseVars,
                   extractVars, telegramVars>>

\* UPDATE tasks SET status = 'RUNNING' WHERE id = ?
MarkRunning ==
    /\ runner.rpos = "batch"
    /\ runner.stage = "mark_running"
    /\ runner' = [runner EXCEPT !.stage = "execute"]
    /\ UNCHANGED <<task_rows, executed>>
    /\ UNCHANGED <<bossVars, reasonVars, routerVars, triageVars, intentVars,
                   sessionVars, historyVars, instanceVars, parseVars,
                   extractVars, telegramVars>>

\* The payload is loaded and the task executed: result = f"Task {name}
\* executed successfully at {time.time()}"
ExecuteTask ==
    /\ runner.rpos = "batch"
    /\ runner.stage = "execute"
    /\ executed' = [executed EXCEPT ![runner.batch[runner.idx]].times =
                                         Append(@, now)]
    /\ runner' = [runner EXCEPT !.stage = "mark_completed"]
    /\ UNCHANGED task_rows
    /\ UNCHANGED <<bossVars, reasonVars, routerVars, triageVars, intentVars,
                   sessionVars, historyVars, instanceVars, parseVars,
                   extractVars, telegramVars>>

\* UPDATE tasks SET status = 'COMPLETED', completed_at = ?, result = ?
MarkCompleted ==
    /\ runner.rpos = "batch"
    /\ runner.stage = "mark_completed"
    /\ executed' = [executed EXCEPT ![runner.batch[runner.idx]].completions = @ + 1]
    /\ runner' = IF runner.idx = Len(runner.batch)
                 THEN [runner EXCEPT !.rpos = "commit", !.idx = @ + 1,
                                     !.stage = "none"]
                 ELSE [runner EXCEPT !.idx = @ + 1, !.stage = "mark_running"]
    /\ UNCHANGED task_rows
    /\ UNCHANGED <<bossVars, reasonVars, routerVars, triageVars, intentVars,
                   sessionVars, historyVars, instanceVars, parseVars,
                   extractVars, telegramVars>>

\* The end of "with sqlite3.connect(...) as conn" without an exception:
\* the transaction is committed.
CommitPoll ==
    /\ runner.rpos = "commit"
    /\ task_rows' = [id \in 1..Len(task_rows) |->
                        [task_rows[id] EXCEPT !.status = TxnStatus(id)]]
    /\ runner' = RunnerAsleep(runner.errors)
    /\ UNCHANGED executed
    /\ UNCHANGED <<bossVars, reasonVars, routerVars, triageVars, intentVars,
                   sessionVars, historyVars, instanceVars, parseVars,
                   extractVars, telegramVars>>

\* An exception in the poll (a statement or the commit that sqlite3
\* refuses): the with block rolls the transaction back, every row the poll
\* has written is as committed before it, and the except logs the error.
\* What the tasks of the poll have done is not undone.
PollError ==
    /\ runner.rpos \in {"batch", "commit"}
    /\ runner.errors < MaxPollErrors
    /\ runner' = RunnerAsleep(runner.errors + 1)
    /\ UNCHANGED <<task_rows, executed>>
    /\ UNCHANGED <<bossVars, reasonVars, routerVars, triageVars, intentVars,
                   sessionVars, historyVars, instanceVars, parseVars,
                   extractVars, telegramVars>>

\* main.py: scheduler = TaskRunner()
InitSched == InitSession

NextSched ==
    \/ AddTask
    \/ StartBackground
    \/ PollSelect
    \/ MarkRunning
    \/ ExecuteTask
    \/ MarkCompleted
    \/ CommitPoll
    \/ PollError
    \/ Tick

SpecSched == InitSched /\ [][NextSched]_vars

\* ------------------------------------------------------------- the claims
\* execute_plan has returned its results list to the caller.
Returned == exec_result = "list"

\* The user approved the link at a prompt (proceed or trust).
ApprovedAtPrompt(link) ==
    \E k \in 1..Len(prompts) :
        /\ prompts[k].kind \in {"link", "stepinto"}
        /\ prompts[k].link = link
        /\ prompts[k].answer \in {"y", "trust"}

HostTrusted(link) == Netloc(Url(link)) \in Range(trusted_domains)

\* C1: a background fetch of a URL is dispatched only if the URL's domain is
\* in the trust list, or the user approved that URL at a prompt, or the
\* session is approved; for search links, step-into links and parse_url steps.
C1_DispatchOnlyIfApproved ==
    \A i \in 1..Len(parsing_tasks) :
        \/ HostTrusted(parsing_tasks[i].link)
        \/ ApprovedAtPrompt(parsing_tasks[i].link)
        \/ session_approved

\* C2 (as claimed): if every URL met during execute_plan had its domain in
\* the trust list, execute_plan has issued no prompt at all.
C2_NoPromptWhenAllTrusted ==
    (Returned /\ urls_met # {} /\ \A m \in urls_met : m.host_trusted)
        => prompts = << >>

\* C2 (amended): a URL whose host is in the trust list never gets a per-link
\* prompt (visit-this-link or step-into), whatever the session flag is; only
\* the batch-level and the include-results prompts are issued without regard
\* to the trust list.
C2_NoLinkPromptForTrustedHost ==
    \A k \in 1..Len(prompts) :
        (prompts[k].answer = "pending" /\ prompts[k].kind \in {"link", "stepinto"})
            => ~HostTrusted(prompts[k].link)

\* A link of a trusted host was dispatched with no prompt about it, the
\* session not approved, after the batch prompt was issued all the same.
C2_Witness ==
    /\ ~session_approved
    /\ \E i \in 1..Len(parsing_tasks) :
        /\ HostTrusted(parsing_tasks[i].link)
        /\ parsing_tasks[i].via = "trusted"
        /\ \A k \in 1..Len(prompts) : prompts[k].link # parsing_tasks[i].link
    /\ \E k \in 1..Len(prompts) : prompts[k].kind = "batch"
    /\ \A m \in urls_met : m.host_trusted

\* C3: a link is auto-approved as trusted only if its host is a member of
\* the trust list.
C3_TrustedOnlyByHost ==
    \A i \in 1..Len(parsing_tasks) :
        parsing_tasks[i].via = "trusted" => HostTrusted(parsing_tasks[i].link)

\* C4: once 'all' is answered at the batch prompt the session flag is true,
\* stays true, and no further prompt of any kind is issued.
C4_ApproveAllSticks ==
    [][ /\ (\E k \in 1..Len(prompts') :
                prompts'[k].kind = "batch" /\ prompts'[k].answer = "all")
            => session_approved'
        /\ session_approved => (session_approved' /\ prompts' = prompts) ]_vars

\* After 'all', a later step's untrusted link and a later tool result went
\* through without a prompt.
C4_Witness ==
    /\ session_approved
    /\ Returned
    /\ prompts[Len(prompts)].kind = "batch"
    /\ \E i \in 1..Len(parsing_tasks) :
        /\ parsing_tasks[i].via = "session"
        /\ parsing_tasks[i].step > prompts[Len(prompts)].step
    /\ \E k \in 1..Len(results) :
        /\ results[k].type = "source"
        /\ results[k].step > prompts[Len(prompts)].step

\* C5: after 'trust' at the prompt for a link, the link's domain is in the
\* in-memory trust list and in the persisted file, the link's parse task was
\* dispatched, and once execute_plan has returned the task is done and its
\* result is in the returned results.
C5_TrustPersistsAndDispatches ==
    \A k \in 1..Len(prompts) :
        (prompts[k].kind = "link" /\ prompts[k].answer = "trust") =>
            /\ Netloc(Url(prompts[k].link)) \in Range(trusted_domains)
            /\ trusted_file.exists /\ trusted_file.readable
            /\ Netloc(Url(prompts[k].link)) \in Range(trusted_file.content)
            /\ \E i \in 1..Len(parsing_tasks) :
                /\ parsing_tasks[i].link = prompts[k].link
                /\ parsing_tasks[i].step = prompts[k].step
                /\ parsing_tasks[i].via = "prompt"
                /\ Returned =>
                    /\ i \in finished
                    /\ \E r \in 1..Len(results) :
                        results[r].type = "parsed" /\ results[r].task = i

\* execute_plan returned after a 'trust' answer, starting without a file.
C5_Witness ==
    /\ Returned
    /\ \E k \in 1..Len(prompts) : prompts[k].kind = "link" /\ prompts[k].answer = "trust"
    /\ Len(trusted_domains) = Len(DefaultTrusted) + 1

\* C6: trust-and-persist for a domain already in the list changes neither
\* the list nor the file, and the list never holds a domain twice.
C6_TrustIdempotent ==
    [][ /\ NoDuplicates(trusted_domains) => NoDuplicates(trusted_domains')
        /\ \A link \in TrustLinks :
            ( /\ prompts' # << >>
              /\ prompts'[1].link = link
              /\ Netloc(Url(link)) \in Range(trusted_domains) )
            => (trusted_domains' = trusted_domains /\ trusted_file' = trusted_file)
      ]_vars

\* 'trust' was answered for a link of arxiv.org, which the defaults hold:
\* the list is as it was and no file was written.
C6_Witness ==
    /\ prompts # << >>
    /\ prompts[1].link = "arxiv_abs"
    /\ prompts[1].answer = "trust"
    /\ trusted_domains = DefaultTrusted
    /\ ~trusted_file.exists

\* The workflow has left execute_plan: synthesis, or back at the caller.
PastExecution == pc \in {"synthesizing", "done", "raised"}

\* The results that came from background tasks / from the steps themselves
BackgroundResults == SelectSeq(results, LAMBDA r : r.type = "parsed")
StepResults       == SelectSeq(results, LAMBDA r : r.type # "parsed")

\* C7: every background task dispatched during execute_plan is done and its
\* result collected before the workflow goes on to synthesis or back to its
\* caller.
C7_AllTasksAwaited ==
    PastExecution =>
        \A i \in 1..Len(parsing_tasks) :
            /\ i \in finished
            /\ \E r \in 1..Len(results) :
                results[r].type = "parsed" /\ results[r].task = i

\* Synthesis starts after several background tasks were dispatched and a
\* 'stop' answer cut a batch short.
C7_Witness ==
    /\ pc = "synthesizing"
    /\ Len(parsing_tasks) >= 2
    /\ \E k \in 1..Len(prompts) : prompts[k].answer = "stop"

\* The user declined, at the include prompt, the result of plan step q.
Declined(q) ==
    \E k \in 1..Len(prompts) :
        prompts[k].kind = "include" /\ prompts[k].step = q /\ prompts[k].answer = "n"

\* C8: the returned list is the steps' own results in plan order, one for
\* every tool step whose result the user did not decline, followed by
\* exactly one entry per dispatched background task.
C8_ResultsShape ==
    Returned =>
        LET n == Len(results)
            s == Len(StepResults)
        IN  /\ results = StepResults \o BackgroundResults
            /\ \A j, k \in 1..s : j < k => results[j].step < results[k].step
            /\ \A q \in 1..Len(plan) :
                Cardinality({k \in 1..s : results[k].step = q})
                    = IF plan[q].worker = "mcp" /\ mcp_manager /\ ~Declined(q)
                      THEN 1 ELSE 0
            /\ \A i \in 1..Len(parsing_tasks) :
                Cardinality({k \in (s + 1)..n : results[k].task = i}) = 1
            /\ n = s + Len(parsing_tasks)

\* Returned with a tool step's result produced after an earlier step had
\* dispatched background tasks.
C8_Witness ==
    /\ Returned
    /\ \E k \in 1..Len(results) : \E i \in 1..Len(parsing_tasks) :
        /\ results[k].type = "source"
        /\ parsing_tasks[i].step < results[k].step
    /\ Len(parsing_tasks) >= 2

\* The tasks of the background results, in the order they are returned
BackgroundTaskOrder == [k \in 1..Len(BackgroundResults) |-> BackgroundResults[k].task]

C10_RejectionNeverBlocks ==
    (pc \in {"done", "raised"} /\ plan # << >> /\ ~is_valid) =>
        /\ "executing" \in Range(phases)
        /\ "synthesizing" \in Range(phases)
        /\ response = "summary_and_report"

\* C11: an empty plan ends the workflow at once with a result the user
\* sees (the returned "could not plan" message, or the logged "planning
\* failed" of the command-line workflow): nothing is validated, executed,
\* dispatched, prompted for or synthesized, and planning is not run again.
C11_EmptyPlanEndsEarly ==
    (phases # << >> /\ plan = << >>) =>
        /\ pc = "done"
        /\ phases = <<"planning">>
        /\ response = NoPlanResponse(entry)
        /\ response # "none"
        /\ exec_result = "none"
        /\ step_idx = 0
        /\ results = << >>
        /\ parsing_tasks = << >>
        /\ prompts = << >>

C11_Witness ==
    /\ pc = "done"
    /\ plan = << >>
    /\ phases = <<"planning">>
    /\ entry = "deep_research"
    /\ response = "planning_failed_logged"

\* The step gives the argument named key: under that key of mapping args,
\* or as the first element of list args of the action that reads it.
GivesArgument(step, key) ==
    /\ step.arg # ""
    /\ \/ step.args_type = "dict" /\ step.key = key
       \/ /\ step.args_type = "list"
          /\ \/ step.action = "search" /\ key = "query"
             \/ step.action = "parse_url" /\ key = "url"

\* A plan entry that is no valid step: no mapping, a worker or action the
\* executor does not know, or a step without the argument its worker
\* reads.
InvalidStep(step) ==
    \/ step.type # "dict"
    \/ step.worker \notin {"ddg", "docling", "mcp"}
    \/ step.worker = "ddg" /\ ~GivesArgument(step, "query")
    \/ step.worker = "docling" /\ step.action \notin {"parse_url", "parse_file"}
    \/ step.worker = "docling" /\ step.action = "parse_url" /\ ~GivesArgument(step, "url")
    \/ step.worker = "docling" /\ step.action = "parse_file"
                               /\ ~GivesArgument(step, "file_path")

NoValidStep == plan # << >> /\ \A i \in 1..Len(plan) : InvalidStep(plan[i])

\* C12: while execute_plan runs a plan without any valid step it dispatches
\* no background task and issues no prompt, and the list it returns is
\* empty.
C12_NoValidStepNoWork ==
    NoValidStep =>
        /\ parsing_tasks = << >>
        /\ prompts = << >>
        /\ results = << >>
        /\ pc \notin {"gather", "prompt_batch", "prompt_link", "links"}

C12_Witness ==
    /\ Returned
    /\ NoValidStep
    /\ Len(plan) = MaxPlanLen
    /\ plan[1].type # "dict"
    /\ plan[2].worker = "docling"
    /\ results = << >>

\* C13: however a workflow instance finishes (a report, an empty plan, a
\* rejected plan, an exception), in either entry point, Boss.cleanup has
\* been called by then.
C13_CleanupOnEveryPath == pc \in {"done", "raised"} => cleaned_up

\* --------------------------------------------- claims on the reasoning loop
\* Every response of the model so far held an Action directive.
AllDirectives == \A i \in 1..Len(model_log) : model_log[i].kind = "directive"

LoopOver == rpc \in {"after_loop", "returned"}

\* C14: with a model that answers every call with a tool-call directive,
\* the loop makes at most six model calls, whatever the tools do, and then
\* process_message returns.
C14_TurnBounded ==
    /\ [](AllDirectives => Len(model_log) <= TurnBudget)
    /\ <>(~AllDirectives \/ rpc = "returned")

C14_Witness ==
    /\ rpc = "returned"
    /\ AllDirectives
    /\ Len(model_log) = TurnBudget
    /\ "Observation: Error" \in Range(current_context)
    /\ "Observation" \in Range(current_context)

\* The budget ran out: every turn of the loop held a directive.
BudgetExhausted == AllDirectives /\ Len(model_log) = TurnBudget /\ LoopOver

\* C15: when the last turn of the budget is reached without a final
\* answer, some model call is given a context that holds the "provide your
\* final answer now" instruction.
C15_ModelSeesFinalInstruction ==
    (rpc = "returned" /\ BudgetExhausted) =>
        \E i \in 1..Len(model_log) : model_log[i].saw_instruction

\* C16: with a model that answers every call with a directive, the context
\* holds the final-answer instruction when the loop is over, whether the
\* tool of the last turn succeeded or raised.
C16_InstructionAtTermination ==
    BudgetExhausted => FinalInstruction \in Range(current_context)

\* C17: a failure of a tool action becomes an "Observation: Error" entry at
\* the end of the context, the loop goes on to the next model call while
\* turns remain, and the failure does not leave process_message.
C17_ToolFailureObserved ==
    [][(rpc = "tool" /\ directive'.outcome = "raise") =>
          /\ current_context' = current_context \o <<"Assistant", "Observation: Error">>
          /\ rpc' # "raised"
          /\ turn < LastTurn => rpc' = "generate"
          /\ final_msg' = final_msg]_vars

C17_Witness ==
    /\ rpc = "generate"
    /\ turn = 3
    /\ Len(model_log) = 3
    /\ "Observation" \notin Range(current_context)
    /\ directive.outcome = "raise"
    /\ directive.tool = "remember" /\ directive.args = "json" /\ memory

\* C18: a failure of the model backend during the loop does not leave
\* process_message as an exception.
C18_BackendFailureContained == rpc # "raised"

\* ----------------------------------------- claims on ModelManager.generate
Failed(call) == call.outcome # "text"

\* C19: when the call of the step-up gateway fails and a default gateway is
\* configured, one retry is made, against the default gateway, and the
\* caller gets its outcome (the parsed response, or the "both failed"
\* text); a failed call of the default gateway is not retried; generate
\* always returns a response.
C19_OneRetryOnDefault ==
    (mpc = "done" /\ gateway_calls # << >>) =>
        LET first == gateway_calls[1]
        IN  /\ generated \in {"parsed", "generation_failed", "both_failed"}
            /\ Len(gateway_calls) <= 2
            /\ (first.gateway = "step_up" /\ Failed(first) /\ default_provider) =>
                  /\ Len(gateway_calls) = 2
                  /\ gateway_calls[2].gateway = "default"
                  /\ generated = IF Failed(gateway_calls[2])
                                 THEN "both_failed" ELSE "parsed"
            /\ (first.gateway = "step_up" /\ Failed(first) /\ ~default_provider) =>
                  /\ Len(gateway_calls) = 1
                  /\ generated = "generation_failed"
            /\ (first.gateway = "default" /\ Failed(first)) =>
                  /\ Len(gateway_calls) = 1
                  /\ generated = "generation_failed"
            /\ ~Failed(first) => Len(gateway_calls) = 1 /\ generated = "parsed"

C19_Witness ==
    /\ mpc = "done"
    /\ Len(gateway_calls) = 2
    /\ gateway_calls[1] = GatewayCall("step_up", "raise")
    /\ gateway_calls[2] = GatewayCall("default", "none")
    /\ generated = "both_failed"

\* C20 as claimed: a call goes to the step-up gateway only if complexity is
\* high, a step-up gateway is configured and the system load is above the
\* thresholds; any other call goes to the default gateway.
C20_StepUpOnlyUnderLoad ==
    mpc = "call" =>
        LET trigger == Lower(complexity) = HighText /\ step_up_provider /\ struggling
        IN  /\ provider = "step_up" => trigger
            /\ ~trigger => provider = "default"

\* C20 as the code has it: the step-up gateway is chosen exactly when
\* complexity is "high" in any letter case and a step-up gateway is
\* configured as the call starts, whatever the load; otherwise the default
\* gateway is chosen if there is one once the models were reloaded, and no
\* gateway at all if there is none.
C20_StepUpByComplexity ==
    [][mpc = "select" =>
          /\ provider' = "step_up" <=> (Lower(complexity) = HighText /\ step_up_provider)
          /\ provider' # "step_up" =>
                provider' = (IF default_provider' THEN "default" ELSE "none")
          /\ provider' = "none" <=> mpc' = "done"]_vars

C20_Witness ==
    /\ mpc = "call"
    /\ provider = "step_up"
    /\ ~struggling
    /\ complexity = <<"H", "I", "G", "H">>
    /\ default_provider

\* C21: when no gateway is available at all, generate makes no backend
\* call, does not raise and returns the explicit "no provider available"
\* response, in ModelManager.generate (after its reload of the models found
\* none) and in TriageEngine.generate alike.
C21_NoProviderMarker ==
    /\ (mpc = "done" /\ ~default_provider /\ ~step_up_provider)
         => /\ generated = "no_provider"
            /\ content = NoProviderContent
            /\ gateway_calls = << >>
    /\ (tpc \in {"done", "raised"} /\ local_provider = "none"
                                   /\ external_provider = "none")
         => /\ tpc = "done"
            /\ triage_response = "no_provider"
            /\ backend_calls = << >>

C21_Witness ==
    /\ mpc = "done"
    /\ ~default_provider
    /\ ~step_up_provider
    /\ Lower(complexity) = HighText
    /\ generated = "no_provider"
    /\ gateway_calls = << >>

C22_FailureNeverValid ==
    (mpc = "validated" /\ generated \in {"no_provider", "generation_failed", "both_failed"})
        => ~is_valid

RecognizedIntents == {"greeting", "track_iss", "get_weather", "research", "deep_research"}

\* C23: a message classified as a recognized intent is answered by the
\* intent's handler and never reaches the reasoning loop, so no model call
\* of the loop is made for it, whatever the tools return; the weather
\* handler calls geocode first and get_current_weather second, the second
\* only when geocode gave coordinates, and nothing else.
C23_FastPathBypassesLoop ==
    intent \in RecognizedIntents =>
        /\ ipc # "loop"
        /\ model_log = << >>
        /\ (intent = "get_weather" /\ ~hello) =>
              /\ Len(tool_calls) <= 2
              /\ Len(tool_calls) >= 1 => tool_calls[1].tool = "geocode"
              /\ Len(tool_calls) = 2 =>
                    /\ tool_calls[1].outcome = "coordinates"
                    /\ tool_calls[2].tool = "get_current_weather"

\* C24: is_authorized(u) is true exactly when a lease was granted to u and
\* less than lease_duration has passed since u's latest grant (so it is
\* false for a user never granted a lease, true right after grant_lease(u)
\* and false again once the duration has passed), and a grant to one user
\* leaves the expiry, and so the authorization, of every other user as it
\* was.
C24_AuthorizedWhileLeaseLasts ==
    /\ [](last_call.op = "is_authorized" =>
            (last_call.result <=>
                /\ granted_at[last_call.user] # Never
                /\ now - granted_at[last_call.user] < lease_duration))
    /\ [][last_call'.op = "grant_lease" =>
            \A v \in Users \ {last_call'.user} :
                /\ leases'[v] = leases[v]
                /\ granted_at'[v] = granted_at[v]]_vars

C24_Witness ==
    /\ last_call = SessionCall("is_authorized", "alice", FALSE)
    /\ granted_at["alice"] # Never
    /\ now - granted_at["alice"] = lease_duration
    /\ granted_at["bob"] # Never
    /\ now - granted_at["bob"] < lease_duration

\* C26: a Boss is constructed with its session-approved flag false whatever
\* earlier instances did, and with the domain list most recently persisted
\* (the built-in defaults when there is no file); and a domain added by
\* trust-and-persist in one instance is in the trust list of every instance
\* constructed afterwards.
C26_TrustLifecycle ==
    /\ [][\A i \in Instances :
            (bosses[i].stage = "unborn" /\ bosses'[i].stage # "unborn") =>
                /\ ~bosses'[i].session_approved
                /\ persist_log # << >> =>
                      bosses'[i].trusted_domains = persist_log[Len(persist_log)].list
                /\ ~trusted_file.exists =>
                      bosses'[i].trusted_domains = DefaultTrusted]_vars
    /\ [](\A i \in Instances :
            bosses[i].stage # "unborn" =>
                bosses[i].known \subseteq Range(bosses[i].trusted_domains))

\* C30: when instances that each trust-and-persist a different domain run
\* interleaved in any way, every one of those domains is in the persisted
\* file once the instances have finished.
C30_NoTrustedDomainLost ==
    (\A i \in Instances : bosses[i].stage # "running") =>
        \A d \in Added : trusted_file.readable /\ d \in Range(trusted_file.content)

IsPrefix(s, t) == Len(s) <= Len(t) /\ SubSeq(t, 1, Len(s)) = s

IsSuffix(s, t) == Len(s) <= Len(t) /\ SubSeq(t, Len(t) - Len(s) + 1, Len(t)) = s

\* C27 as stated: the history is append-only, entries are never removed,
\* reordered or rewritten by process_message or by the front-end.
C27_AppendOnly == [][IsPrefix(history, history')]_vars

\* C27, amended: a message leaves the history as it was or appends its
\* User/Assistant pair at the end, entries are never reordered or rewritten
\* and process_message only reads the list; but the e-mail front-end keeps
\* no more than the 10 most recent entries after an append, dropping the
\* oldest, and the CLI's 'clear' empties the list. The prompt is given the
\* last 10 entries by the reasoning loop and the last 5 by research.
C27_AppendThenCut ==
    /\ [][\/ history' = history
          \/ history' = history \o Exchange(turn_no')
          \/ /\ frontend = "email"
             /\ Len(history') = HistoryKept
             /\ IsSuffix(history', history \o Exchange(turn_no'))
          \/ frontend = "cli" /\ history' = << >>]_vars
    /\ [](frontend = "email" => Len(history) <= HistoryKept)
    /\ [][turn_no' # turn_no =>
            \/ rendered' = << >>
            \/ IsSuffix(rendered', history) /\ Len(rendered') = LoopWindow
            \/ IsSuffix(rendered', history) /\ Len(rendered') = ResearchWindow
            \/ rendered' = history /\ Len(history) < LoopWindow]_vars

C27_Witness ==
    /\ frontend = "email"
    /\ turn_no = 6
    /\ Len(history) = HistoryKept
    /\ history[1] = [speaker |-> "User", turn |-> 2]
    /\ Len(rendered) = LoopWindow

\* The position of a link in the search results of plan step q
PositionIn(q, link) ==
    LET found == SearchResults(plan[q].arg)
    IN  IF \E n \in 1..Len(found) : found[n] = link
        THEN CHOOSE n \in 1..Len(found) : found[n] = link
        ELSE 0

\* The user answered 'stop' at prompt k.
StoppedAt(k) == prompts[k].kind = "link" /\ prompts[k].answer = "stop"

\* Nothing of the batch of prompt k came after the 'stop': no prompt, and
\* no task for a link at or after the one the prompt was for.
BatchEndedAt(k) ==
    /\ \A j \in (k + 1)..Len(prompts) : prompts[j].step # prompts[k].step
    /\ \A i \in 1..Len(parsing_tasks) :
          (parsing_tasks[i].step = prompts[k].step)
              => (PositionIn(prompts[k].step, parsing_tasks[i].link)
                    < PositionIn(prompts[k].step, prompts[k].link))

\* Every task is done and its result returned.
TasksCollected ==
    \A i \in 1..Len(parsing_tasks) :
        /\ i \in finished
        /\ \E r \in 1..Len(results) : results[r].type = "parsed" /\ results[r].task = i

\* The steps after step q were run: the loop went through the plan, and
\* each parse_url step among them dispatched its task.
RemainingStepsRun(q) ==
    /\ step_idx = Len(plan) + 1
    /\ \A n \in (q + 1)..Len(plan) :
          (plan[n].worker = "docling")
              => (\E i \in 1..Len(parsing_tasks) : parsing_tasks[i].step = n)

\* C28: after 'stop' at a link prompt no further prompt is issued and no
\* further link dispatched for that search batch (the step goes on to the
\* next plan step at once, with the tasks as they were); the tasks
\* dispatched before the 'stop' are awaited and their results returned; and
\* the remaining plan steps are processed.
C28_StopEndsTheBatchOnly ==
    /\ [](\A k \in 1..Len(prompts) :
            StoppedAt(k) =>
                /\ BatchEndedAt(k)
                /\ PastExecution => (TasksCollected /\ RemainingStepsRun(prompts[k].step)))
    /\ [][(pc = "prompt_link" /\ prompts'[Len(prompts')].answer = "stop") =>
            /\ pc' = "step"
            /\ step_idx' = step_idx + 1
            /\ parsing_tasks' = parsing_tasks]_vars

\* The first link of a batch was approved, 'stop' answered at the second,
\* and the parse_url step that follows was processed; the third link, which
\* needs no prompt, was never dispatched.
C28_Witness ==
    /\ pc = "synthesizing"
    /\ Len(plan) = 2
    /\ plan[2].worker = "docling"
    /\ Len(prompts) = 3
    /\ prompts[2].link = "news_a" /\ prompts[2].answer = "y"
    /\ prompts[3].link = "news_b" /\ prompts[3].answer = "stop"
    /\ Len(parsing_tasks) = 2
    /\ parsing_tasks[1].link = "news_a" /\ parsing_tasks[1].step = 1
    /\ parsing_tasks[2].step = 2
    /\ Len(results) = 2

\* The user answered 'trust' at prompt k.
TrustedAt(k) == prompts[k].kind = "link" /\ prompts[k].answer = "trust"

SameHost(l1, l2) == Netloc(Url(l1)) = Netloc(Url(l2))

\* No 'stop' was answered in plan step q.
NotStopped(q) == \A j \in 1..Len(prompts) : ~(StoppedAt(j) /\ prompts[j].step = q)

\* The loop over the batch of step q has gone past position n.
BatchPast(q, n) == step_idx > q \/ (step_idx = q /\ pc = "links" /\ item_idx > n)

\* C29: from the 'trust' answer for a link of domain D on, the persisted
\* file holds D, so it does before the next prompt and the next dispatch;
\* no later prompt of this instance is for a link of D, and the later links
\* of D, in the same batch and in later steps, are dispatched as trusted.
C29_TrustTakesEffectAtOnce ==
    \A k \in 1..Len(prompts) :
        TrustedAt(k) =>
            /\ trusted_file.exists /\ trusted_file.readable
            /\ Netloc(Url(prompts[k].link)) \in Range(trusted_file.content)
            /\ \A j \in (k + 1)..Len(prompts) :
                  prompts[j].kind = "link" => ~SameHost(prompts[j].link, prompts[k].link)
            /\ \A q \in prompts[k].step..Len(plan) :
                  plan[q].worker = "ddg" =>
                      LET found == SearchResults(plan[q].arg)
                      IN  \A n \in 1..Len(found) :
                            ( /\ SameHost(found[n], prompts[k].link)
                              /\ (q > prompts[k].step
                                    \/ n > PositionIn(q, prompts[k].link))
                              /\ NotStopped(q)
                              /\ BatchPast(q, n) )
                            => \E i \in 1..Len(parsing_tasks) :
                                  /\ parsing_tasks[i].link = found[n]
                                  /\ parsing_tasks[i].step = q
                                  /\ parsing_tasks[i].via = "trusted"

\* 'trust' was answered for the first link of a batch; the second link of
\* the same host went through without a prompt in that batch and both did
\* in the repeated search of the next step.
C29_Witness ==
    /\ pc = "synthesizing"
    /\ plan = <<BatchSearch, BatchSearch>>
    /\ Len(prompts) = 3
    /\ prompts[2].link = "news_a" /\ prompts[2].answer = "trust"
    /\ prompts[3].kind = "batch"
    /\ Len(parsing_tasks) = 6
    /\ parsing_tasks[2].link = "news_b" /\ parsing_tasks[2].via = "trusted"
    /\ parsing_tasks[4].link = "news_a" /\ parsing_tasks[4].via = "trusted"
    /\ trusted_file.exists

\* The prompts that wait for their answer.
PendingPrompts == {k \in 1..Len(prompts) : prompts[k].answer = "pending"}

\* Where execute_plan's own flow calls input(): after the tool call of an
\* mcp step, in the loop over the papers of a result, after the search of a
\* ddg step, in the loop over the links of a batch.
GatePoints == {"await_tool", "stepinto", "step", "links"}

\* A background task that has been dispatched and has not finished.
TaskRunning == \E i \in 1..Len(parsing_tasks) : i \notin finished

\* C31: at any moment at most one prompt of the workflow instance waits for
\* its answer, and it is the one execute_plan is suspended at; a prompt is
\* issued only by execute_plan's own flow at one of its gate points, while
\* no prompt is pending, and never by the completion of a background task,
\* which leaves the prompts as they are also while one is pending.
C31_PromptsSerialized ==
    /\ [](/\ Cardinality(PendingPrompts) <= 1
          /\ PendingPrompts # {} =>
                /\ PendingPrompts = {Len(prompts)}
                /\ pc \in {"prompt_include", "prompt_stepinto", "prompt_batch",
                           "prompt_link"})
    /\ [][/\ Len(prompts') > Len(prompts) =>
                /\ pc \in GatePoints
                /\ PendingPrompts = {}
                /\ Len(prompts') = Len(prompts) + 1
                /\ finished' = finished
          /\ finished' # finished => prompts' = prompts]_vars

\* A link prompt waits for its answer while one background task dispatched
\* before it has finished and another one still runs.
C31_Witness ==
    /\ pc = "prompt_link"
    /\ PendingPrompts = {Len(prompts)}
    /\ TaskRunning
    /\ finished # {}

\* execute_plan has returned its results to process_message.
ExecutePlanReturned == exec_result = "list"

\* C32: a background parse whose conversion raises still resolves to a
\* text, the inline error marker in place of the page's markdown; the
\* gather of the tasks is never left by an exception, and once execute_plan
\* has returned, the results hold one entry per dispatched task, failed or
\* not, each with the text its task resolved to.
C32_FailedParseStillResolves ==
    /\ [](\A e \in parse_log :
            /\ e.page_md # "raise"
            /\ e.convert = "raise" => e.page_md = "Error parsing document")
    /\ [](ExecutePlanReturned =>
            \A i \in 1..Len(parsing_tasks) :
                \E e \in parse_log : \E r \in 1..Len(results) :
                    /\ e.task = i
                    /\ results[r].type = "parsed" /\ results[r].task = i
                    /\ results[r].page_md = e.page_md)
    /\ [][pc = "gather" => pc' \in {"gather", "synthesizing"}]_vars

\* execute_plan has returned three results: the parse of one task failed
\* and is in the results as the error marker, its two siblings' markdown is
\* there too.
C32_Witness ==
    /\ pc = "synthesizing"
    /\ Len(parsing_tasks) = 3
    /\ \E a, b, c \in 1..Len(results) :
        /\ a # b /\ b # c /\ a # c
        /\ results[a].page_md = "Error parsing document"
        /\ results[b].page_md = "markdown"
        /\ results[c].page_md = "markdown"

\* The background tasks plan entry q dispatched.
TasksOf(q) == {i \in 1..Len(parsing_tasks) : parsing_tasks[i].step = q}

\* Entry q is a step whose args came as a list and were repaired to the
\* argument its worker reads.
RepairedUrl(q) == plan[q] = Entry("dict", "docling", "parse_url", "list", "none", "news_a")
RepairedQuery(q) == plan[q] = Entry("dict", "ddg", "search", "list", "none", "qa")

\* The search of step q was made: its links were put before the user or
\* dispatched.
Searched(q) == TasksOf(q) # {} \/ \E k \in 1..Len(prompts) : prompts[k].step = q

\* Entry q is dropped: no mapping, args that are a string (emptied) or a
\* list of a step that is neither parse_url nor search (wrapped as "data").
Dropped(q) ==
    \/ plan[q].type # "dict"
    \/ plan[q].args_type = "str"
    \/ plan[q].args_type = "list" /\ plan[q].action \notin {"parse_url", "search"}

\* C33: no plan entry, whatever its shape, makes execute_plan raise or
\* stall; the loop takes the entries one by one to the end of the plan;
\* and when execute_plan has returned, an entry that is no mapping, or
\* whose args were emptied or wrapped, has dispatched nothing, a parse_url
\* or search step with list args has run on the list's first element, and
\* a well-formed step has run wherever it stands among malformed ones.
C33_MalformedStepNeverFatal ==
    /\ [][pc' = "raised" => pc = "synthesizing"]_vars
    /\ [][step_idx' # step_idx => step_idx' = step_idx + 1]_vars
    /\ [](pc = "step" /\ step_idx <= Len(plan) =>
            ENABLED (StepNotMapping \/ StepDdg \/ StepDocling \/ StepSkip))
    /\ [](ExecutePlanReturned =>
            /\ step_idx = Len(plan) + 1
            /\ \A q \in 1..Len(plan) :
                /\ Dropped(q) => TasksOf(q) = {}
                /\ RepairedUrl(q) =>
                      \E i \in TasksOf(q) : parsing_tasks[i].link = "news_a"
                /\ RepairedQuery(q) => Searched(q)
                /\ plan[q] = Step("docling", "parse_url", "url", "news_a") =>
                      \E i \in TasksOf(q) : parsing_tasks[i].link = "news_a")

\* execute_plan has returned for a plan whose first entry is no mapping
\* and whose second is a search with list args, which ran.
C33_Witness ==
    /\ ExecutePlanReturned
    /\ Len(plan) = 2
    /\ plan[1].type # "dict"
    /\ RepairedQuery(2)
    /\ \E i \in TasksOf(2) : parsing_tasks[i].link = "news_a"

\* The phases of the state machine, in their order.
PhaseOrder == <<"planning", "validating", "executing", "synthesizing">>

\* C34: the phases started so far are the first ones of planning,
\* validating, executing, synthesizing, in that order and each once;
\* validation starts only with a plan in hand, execution only after the
\* validator has answered, and synthesis only after execute_plan has
\* returned its results.
C34_PhasesInOrder ==
    /\ Len(phases) <= Len(PhaseOrder)
    /\ phases = SubSeq(PhaseOrder, 1, Len(phases))
    /\ "validating" \in Range(phases) => plan # << >>
    /\ "executing" \in Range(phases) => pc # "validating"
    /\ "synthesizing" \in Range(phases) => ExecutePlanReturned

\* The built-in local actions.
LocalActions == {"remember", "recall", "schedule"}

\* The directive of the turn has been through the try block.
Executed(d) == d.outcome \in {"ok", "raise"}

\* C35: a directive named remember, recall or schedule is never handed to
\* the Tool Directory: whatever is handed to the Tool Directory has another
\* name.
C35_BuiltInsStayLocal ==
    (Executed(directive) /\ directive.tool \in LocalActions)
        => directive.handler # "tool_directory"

\* The well-formed JSON arrays that occur in s, as pairs of their first and
\* last index.
ArraysIn(s) ==
    {ij \in (1..Len(s)) \X (1..Len(s)) :
        /\ ij[1] < ij[2]
        /\ s[ij[1]] = "["
        /\ IsJson(SubSeq(s, ij[1], ij[2]))}

\* The first of them.
FirstArrayIn(s) ==
    LET ij == CHOOSE a \in ArraysIn(s) : \A b \in ArraysIn(s) : a[1] <= b[1]
    IN  SubSeq(s, ij[1], ij[2])

\* C36: plan_task returns the first well-formed JSON array that occurs in
\* the content of the planner's response, whatever bracketed text stands
\* before or after it, and the empty plan only when there is none.
C36_FirstWellFormedArray ==
    extracted.returned =>
        LET response_content == ParseContent(raw_output)
        IN  extracted.plan = IF ArraysIn(response_content) # {}
                             THEN FirstArrayIn(response_content)
                             ELSE EmptyPlan

\* The Error entries of plan step q in the results.
ErrorsOfStep(q) == {r \in 1..Len(results) : results[r].type = "error" /\ results[r].step = q}

\* C37: an mcp step in which the tool call or a prompt raised has exactly
\* one Error entry in the results and has dispatched no background task,
\* and the exception never leaves execute_plan: the loop goes on with the
\* step after it.
C37_McpErrorCaptured ==
    /\ [](\A q \in 1..Len(plan) :
            ErrorsOfStep(q) # {} =>
                /\ Cardinality(ErrorsOfStep(q)) = 1
                /\ TasksOf(q) = {})
    /\ [][pc' = "raised" => pc = "synthesizing"]_vars
    /\ [][Len(results') > Len(results) /\ results'[Len(results')].type = "error" =>
            pc' = "step" /\ step_idx' = step_idx + 1]_vars

\* The Source entries of plan step q in the results.
SourcesOfStep(q) == {r \in 1..Len(results) : results[r].type = "source" /\ results[r].step = q}

\* A step-into prompt of plan step q raised.
StepIntoRaised(q) ==
    \E k \in 1..Len(prompts) :
        prompts[k].step = q /\ prompts[k].kind = "stepinto" /\ prompts[k].answer = "raise"

\* C37, amended: an exception in an mcp step never leaves execute_plan; it
\* adds exactly one Error entry for the step and the loop goes on with the
\* step after it. When the tool call or the include prompt raised, the
\* Error entry is the step's only entry and the step has dispatched
\* nothing. When a step-into prompt raised, the Error entry follows the
\* step's Source entry, and the paper approved before that prompt, if any,
\* stays dispatched.
C37_McpErrorAfterPartialWork ==
    /\ [](\A q \in 1..Len(plan) :
            ErrorsOfStep(q) # {} =>
                /\ Cardinality(ErrorsOfStep(q)) = 1
                /\ Cardinality(TasksOf(q)) <= 1
                /\ IF StepIntoRaised(q)
                   THEN \E r \in SourcesOfStep(q) : \A e \in ErrorsOfStep(q) : r < e
                   ELSE SourcesOfStep(q) = {} /\ TasksOf(q) = {})
    /\ [][pc' = "raised" => pc = "synthesizing"]_vars
    /\ [][Len(results') > Len(results) /\ results'[Len(results')].type = "error" =>
            pc' = "step" /\ step_idx' = step_idx + 1]_vars

\* execute_plan has returned: the second step-into prompt of step 1 raised
\* after the first paper was dispatched, the step has its Source and its
\* Error entry, the paper was parsed and the step after it has run.
C37_Witness ==
    /\ ExecutePlanReturned
    /\ Len(plan) = 2
    /\ StepIntoRaised(1)
    /\ ErrorsOfStep(1) # {}
    /\ \E i \in TasksOf(1) : \E r \in 1..Len(results) :
          results[r].type = "parsed" /\ results[r].task = i
    /\ TasksOf(2) # {}

\* ---------------------------------------- claims on an exhausted turn budget
\* Each of the six turns of the loop got a response with an Action directive.
SixDirectives ==
    /\ Len(model_log) >= TurnBudget
    /\ \A i \in 1..TurnBudget :
          model_log[i].task = "loop" /\ model_log[i].kind = "directive"

\* The reflection calls made so far: the replies whose STORE and UPDATE
\* lines are written to the note store.
ReflectionCalls == {i \in 1..Len(model_log) : model_log[i].task = "reflect"}

\* C38: when all six turns of the reasoning loop produce an action
\* directive, process_message returns the empty string: the final message
\* stays empty, no seventh model call is made, in particular no reflection
\* call, so nothing is written to the note store through reflection, and
\* no exception leaves process_message.
C38_ExhaustedBudgetReturnsEmpty ==
    SixDirectives =>
        /\ final_msg = ""
        /\ ReflectionCalls = {}
        /\ Len(model_log) = TurnBudget
        /\ rpc \in {"tool", "after_loop", "returned"}
        /\ rpc # "tool" => turn = TurnBudget

C38_Witness ==
    /\ SixDirectives
    /\ rpc = "returned"
    /\ memory
    /\ FinalInstruction \in Range(current_context)

\* ------------------------------------------- claims on the Telegram gateway
\* The user was granted a lease that has not expired at time t.
LeaseLiveAt(u, t) == granted_at[u] # Never /\ t < granted_at[u] + lease_duration

IsGrantText(text) == Upper(text) \in GrantWords

\* C39: handle_message processes no task for a user without a live lease:
\* a message routed to the plugin flow or to the triage engine comes from a
\* user whose lease is live; a message of a user whose lease was never
\* granted or has expired, other than a grant word, gets the approval
\* request as its only reply; a lease changes only by an OK, YES or Y
\* message (in any case) and only for its sender, and such a message is
\* answered with the grant and not processed as a task.
C39_NoTaskWithoutLease ==
    /\ [](tg_last.route \in {"plugin", "triage"} =>
              /\ LeaseLiveAt(tg_last.user, tg_last.at)
              /\ ~IsGrantText(tg_last.text))
    /\ []((tg_last.route # "none" /\ tg_last.route # "grant"
           /\ ~LeaseLiveAt(tg_last.user, tg_last.at)) =>
              /\ tg_last.route = "approval_request"
              /\ tg_last.replies = <<"approval_request">>)
    /\ []((tg_last.route # "none" /\ IsGrantText(tg_last.text)) =>
              /\ tg_last.route = "grant"
              /\ tg_last.replies = <<"lease_granted">>)
    /\ [][leases' # leases =>
              /\ tg_last'.route = "grant"
              /\ IsGrantText(tg_last'.text)
              /\ \A u \in Users \ {tg_last'.user} : leases'[u] = leases[u]]_vars

\* A user whose lease has expired asks for the plugin flow.
C39_Witness ==
    /\ tg_last.route = "approval_request"
    /\ Contains(Lower(tg_last.text), ArxivWord)
    /\ granted_at[tg_last.user] # Never
    /\ tg_last.at = granted_at[tg_last.user] + lease_duration

\* ------------------------------------------------- claims on the TaskRunner
TaskIds == 1..Len(task_rows)

\* C40: with a single TaskRunner loop a scheduled task is never executed
\* before its scheduled time, its status only moves from PENDING to RUNNING
\* to COMPLETED and never backwards, it is completed at most once, and an
\* error in a poll leaves every task that is not completed PENDING.
C40_TaskLifecycle ==
    /\ [](\A id \in TaskIds : \A k \in 1..Len(executed[id].times) :
              executed[id].times[k] >= task_rows[id].scheduled_at)
    /\ [](\A id \in TaskIds : executed[id].completions <= 1)
    /\ [][\A id \in TaskIds : Rank(TxnStatus(id)') >= Rank(TxnStatus(id))]_vars
    /\ [][runner'.errors > runner.errors =>
              \A id \in TaskIds :
                  task_rows'[id].status # "COMPLETED" => TxnStatus(id)' = "PENDING"]_vars

\* What holds of the rows as committed: no task is executed before its
\* scheduled time, a committed status is PENDING or COMPLETED and never
\* leaves COMPLETED, and a failed poll leaves the committed rows as they
\* were.
C40_CommittedLifecycle ==
    /\ [](\A id \in TaskIds : \A k \in 1..Len(executed[id].times) :
              executed[id].times[k] >= task_rows[id].scheduled_at)
    /\ [](\A id \in TaskIds : task_rows[id].status \in {"PENDING", "COMPLETED"})
    /\ [][\A id \in TaskIds :
              Rank(task_rows'[id].status) >= Rank(task_rows[id].status)]_vars
    /\ [][runner'.errors > runner.errors => task_rows' = task_rows]_vars

\* The part on completion alone: the runner marks no task COMPLETED twice.
C40_CompletedOnce ==
    \A id \in TaskIds : executed[id].completions <= 1

====
